---- MODULE Spec2Model ----
(***************************************************************************)
(* The activity synchronisation of subtlepseudonym/ledger:                 *)
(* RequestActivity (plaid.go) walks over the configured items, optionally  *)
(* checks each item's staleness and asks for a refresh (checkRefresh),     *)
(* then pages through the transactions and investments endpoints and       *)
(* accumulates the pages into one ItemData per item.                       *)
(*                                                                         *)
(* The provider is the environment: every remote call is one step that     *)
(* sends the request and receives one of the possible outcomes (transport  *)
(* failure, non-200 status, undecodable body, or a decoded 200 response    *)
(* with arbitrary content).  Time is counted in hours since the zero       *)
(* time.Time.                                                              *)
(*                                                                         *)
(* PagingSpec is RequestActivity again, against a provider that holds a    *)
(* fixed number of records and reports it as the total on every page.      *)
(*                                                                         *)
(* run (cmd) is a further state machine, RunSpec: it settles the end date, *)
(* calls RequestActivity with it, and for                                  *)
(* each fetched bundle it clamps both lists to the half-month boundary,    *)
(* sorts them by date and hands them to WriteTransactions and              *)
(* WriteInvestments, which write rows to two csv.Writers.  There an        *)
(* instant is a day count with the second and nanosecond of the day.       *)
(***************************************************************************)
EXTENDS Integers, Sequences, FiniteSets, TLC

(***************************************************************************)
(* Program constants                                                       *)
(***************************************************************************)
maxTransactionCount == 500

RefreshThresholdLimit == 168

itemGetEndpoint == "item/get"

transactionsEndpoint == "transactions/get"

transactionsRefreshEndpoint == "transactions/refresh"

investmentsEndpoint == "investments/transactions/get"

investmentsRefreshEndpoint == "investments/refresh"

\* the largest time.Duration (2^63 - 1 ns), in whole hours: Time.Sub saturates there
MaxDuration == 2562047

(***************************************************************************)
(* Bounds and input sets                                                   *)
(***************************************************************************)
\* pages requested per item and stream before the model stops following the loop
MaxPages == 2

\* the offset from which the paging provider's answers are all alike: it
\* holds fewer records, and larger offsets are kept as this one
MaxOffset == 2400

\* record counts the paging provider may hold for a query
Holdings == {0, 120, 499, 500, 600, 1200}

\* time.Now() of the run, hours since the zero time
Now == 17750000

\* refresh thresholds the caller may pass (hours): below the limit, and the limit
Thresholds == {24, RefreshThresholdLimit}

\* last-successful-update timestamps of a status response:
\* never updated (zero time), 23 hours old, exactly 24 hours old
Timestamps == {0, Now - 23, Now - 24}

\* total-available counts a page may report
Totals == {120, 499, 500}

\* record lists a transactions page may carry (records are opaque values)
TransactionPages == {<<>>, <<"t1">>, <<"t2", "t1">>}

SecurityA == [ID |-> "s1", Name |-> "Alpha"]

SecurityB == [ID |-> "s1", Name |-> "Alpha renamed"]

SecurityC == [ID |-> "s2", Name |-> "Beta"]

\* investment pages: the record list and the security list of one response
InvestmentPages ==
    { [InvestmentTransactions |-> <<>>, Securities |-> <<>>],
      [InvestmentTransactions |-> <<"v1">>, Securities |-> <<SecurityA>>],
      [InvestmentTransactions |-> <<"v2", "v1">>, Securities |-> <<SecurityB, SecurityC>>] }

NoItemConfig == [Transactions |-> {}, Investments |-> {}]

\* the configurations of a run: config.Items, item ID -> account ID sets
Configs ==
    { [i \in {"item1"} |-> [Transactions |-> {"acct1"}, Investments |-> {"acct2"}]],
      [i \in {"item1", "item2"} |->
          IF i = "item1" THEN [Transactions |-> {"acct1"}, Investments |-> {}]
                         ELSE [Transactions |-> {}, Investments |-> {"acct2"}]],
      [i \in {"item1"} |-> NoItemConfig] }

(***************************************************************************)
(* Wire values                                                             *)
(***************************************************************************)
NoError == [Type |-> "", Code |-> "", Message |-> "", Display |-> ""]

ProviderError ==
    [Type |-> "ITEM_ERROR", Code |-> "ITEM_LOGIN_REQUIRED",
     Message |-> "login required", Display |-> "Please log in again"]

APIErrors == {NoError, ProviderError}

\* outcomes of a remote call other than a decoded 200 response
FailureKinds == {"transport", "400", "500", "decode"}

EmptyMap == [k \in {} |-> k]

NoStatus == [Transactions |-> 0, Investments |-> 0]

NoResponse ==
    [kind |-> "none", Error |-> NoError, Records |-> <<>>, Securities |-> <<>>, Total |-> 0]

FailedResponse(kind) ==
    [kind |-> kind, Error |-> NoError, Records |-> <<>>, Securities |-> <<>>, Total |-> 0]

\* everything the transactions endpoint may answer
TransactionsResponses ==
    { FailedResponse(k) : k \in FailureKinds } \cup
    { [kind |-> "ok", Error |-> e, Records |-> p, Securities |-> <<>>, Total |-> t] :
         e \in APIErrors, p \in TransactionPages, t \in Totals }

\* everything the investments endpoint may answer
InvestmentsResponses ==
    { FailedResponse(k) : k \in FailureKinds } \cup
    { [kind |-> "ok", Error |-> e, Records |-> p.InvestmentTransactions,
       Securities |-> p.Securities, Total |-> t] :
         e \in APIErrors, p \in InvestmentPages, t \in Totals }

\* everything item/get may answer: a failure, or the item and a status with
\* two timestamps; the item of one answer embeds a provider error
ItemGetResponses ==
    { [kind |-> k, Error |-> NoError, Status |-> NoStatus] : k \in FailureKinds } \cup
    { [kind |-> "ok", Error |-> NoError, Status |-> [Transactions |-> t, Investments |-> v]] :
         t \in Timestamps, v \in Timestamps } \cup
    { [kind |-> "ok", Error |-> ProviderError,
       Status |-> [Transactions |-> Now - 23, Investments |-> Now - 23]] }

\* everything a refresh endpoint may answer
RefreshResponses == { FailedResponse(k) : k \in FailureKinds \cup {"ok"} }

VARIABLES
    config,              \* config.Items: item ID -> ItemConfig
    refreshThreshold,    \* the refreshThreshold argument
    pc,                  \* position in RequestActivity / checkRefresh
    remaining,           \* items the range loop has not visited yet
    itemID,              \* the range loop's current key
    res,                 \* checkRefresh: res.Status of the item/get response
    item,                \* the ItemData being filled
    items,               \* the ItemData finished so far
    transactionsRes,     \* the last transactions response
    transactionsTotal,   \* the offset accumulator of the transactions loop
    investmentsRes,      \* the last investments response
    investmentsTotal,    \* the offset accumulator of the investments loop
    ret,                 \* what RequestActivity (or run) returned
    calls,               \* every remote call made so far, with its outcome
    start,               \* run: the --start date
    end,                 \* run: the --end date as the export loop sees it
    clampSemimonthly,    \* run: the --clamp-semimonthly flag
    clampEndDate,        \* run: the clamp boundary of the current bundle
    sortOutput,          \* run: the --sort flag
    options,             \* run: the WriteOptions built from the flags
    activity,            \* run: the bundles the export loop has not visited yet
    transactionsOutput,  \* run: the csv.Writer over the transactions file
    investmentsOutput,   \* run: the csv.Writer over the investments file
    endDate,             \* run: the --end flag as parsed
    inclusiveEndDate,    \* run: the --inclusive-end-date flag
    request,             \* run: the dates of the requests RequestActivity sends
    provider             \* the records the provider holds for a query, per stream

vars == <<config, refreshThreshold, pc, remaining, itemID, res, item, items,
          transactionsRes, transactionsTotal, investmentsRes, investmentsTotal,
          ret, calls, start, end, clampSemimonthly, clampEndDate, sortOutput, options,
          activity, transactionsOutput, investmentsOutput, endDate, inclusiveEndDate,
          request, provider>>

\* the state of run's export loop, which RequestActivity never touches
runVars == <<start, end, clampSemimonthly, clampEndDate, sortOutput, options, activity,
             transactionsOutput, investmentsOutput, endDate, inclusiveEndDate, request>>

(***************************************************************************)
(* Pure helpers                                                            *)
(***************************************************************************)
\* fmt.Errorf with a trailing %w: an error message is the list of its parts,
\* the prefix (with its formatted arguments) followed by the wrapped error
Errorf(prefix, err) == prefix \o err

\* time.Time.IsZero
IsZero(t) == t = 0

\* time.Time.Sub: the difference, saturated at the largest Duration
Sub(t, u) == IF t - u > MaxDuration THEN MaxDuration ELSE t - u

\* line 74 never taken: checkRefresh is not called
ShouldCheckRefresh_Never(threshold) == FALSE

\* line 74 with <= for <: the check still runs at the limit
ShouldCheckRefresh_AtLimit(threshold) == threshold <= RefreshThresholdLimit

\* RequestActivity, line 74: is checkRefresh called at all
ShouldCheckRefresh(threshold) == threshold < RefreshThresholdLimit

\* checkRefresh, lines 141-143: lastUpdate is read from the investments
\* stream, the age from the transactions stream
TransactionsStale(status, now, threshold) ==
    LET lastUpdate == status.Investments
        transactionsAge == Sub(now, status.Transactions)
    IN  ~IsZero(lastUpdate) /\ transactionsAge >= threshold

\* lines 157-159 with > for >=: a stream exactly the threshold old is left alone
InvestmentsStale_StrictlyOlder(status, now, threshold) ==
    LET lastUpdate == status.Investments
        investmentsAge == Sub(now, status.Investments)
    IN  ~IsZero(lastUpdate) /\ investmentsAge > threshold

\* checkRefresh, lines 157-159
InvestmentsStale(status, now, threshold) ==
    LET lastUpdate == status.Investments
        investmentsAge == Sub(now, status.Investments)
    IN  ~IsZero(lastUpdate) /\ investmentsAge >= threshold

\* lines 86 and 104 without the length test: every stream is requested
Requested_Always(accounts) == Cardinality(accounts) >= 0

\* lines 86 and 104: len(accounts) > 0
Requested(accounts) == Cardinality(accounts) > 0

\* lines 94 and 115 with > for >=
MorePages_StrictlyMore(total) == total > maxTransactionCount

\* the loop conditions of lines 94 and 115
MorePages(total) == total >= maxTransactionCount

\* lines 100 and 124: the accumulator that becomes the next offset
NextOffset(total, response) == total + response.Total

\* lines 91, 99, 109, 120 assigning the page instead of appending it
AppendPage_Replace(list, page) == page

\* lines 91, 99, 109, 120: append(list, page...)
AppendPage(list, page) == list \o page

\* lines 110-112, 121-123 storing a security only when its ID is not yet known
RECURSIVE MergeSecurities_KeepFirst(_, _)
MergeSecurities_KeepFirst(map, securities) ==
    IF securities = <<>> THEN map
    ELSE LET s == Head(securities)
         IN  MergeSecurities_KeepFirst([k \in DOMAIN map \cup {s.ID} |->
                                           IF k \in DOMAIN map THEN map[k] ELSE s],
                                       Tail(securities))

\* lines 110-112, 121-123: item.Securities[security.ID] = security, in list order
RECURSIVE MergeSecurities(_, _)
MergeSecurities(map, securities) ==
    IF securities = <<>> THEN map
    ELSE LET s == Head(securities)
         IN  MergeSecurities([k \in DOMAIN map \cup {s.ID} |->
                                 IF k = s.ID THEN s ELSE map[k]],
                             Tail(securities))

\* lines 324 and 387 left out: only the HTTP status decides
HasError_Never(rerr) == FALSE

\* lines 324 and 387: rerr.Type != ""
HasError(rerr) == rerr.Type # ""

\* lines 325 and 388 formatting the type and the code only
ResponseError_NoMessage(rerr) == <<"response error:", rerr.Type, rerr.Code>>

\* lines 325 and 388: "response error: %s %s %s" of type, code and message
ResponseError(rerr) == <<"response error:", rerr.Type, rerr.Code, rerr.Message>>

\* the error of a request function for an outcome that is no decoded 200 response
RequestFailure(kind) ==
    CASE kind = "transport" -> <<"do request:", "connection refused">>
      [] kind = "400" -> <<"bad response:", "400 Bad Request">>
      [] kind = "500" -> <<"bad response:", "500 Internal Server Error">>
      [] kind = "decode" -> <<"decode response:", "unexpected end of JSON input">>
      [] OTHER -> <<>>

\* requestItem and requestRefresh without the status switch of lines 200-211
\* and 246-257: only a transport failure is an error
BasicRequestErr_TransportOnly(r) ==
    IF r.kind = "transport" THEN RequestFailure(r.kind) ELSE <<>>

\* requestItem and requestRefresh: the error returned (<<>> is nil)
BasicRequestErr(r) == RequestFailure(r.kind)

\* requestItemTransactions and requestItemInvestments: the error returned
PageRequestErr(r) ==
    IF r.kind # "ok" THEN RequestFailure(r.kind)
    ELSE IF HasError(r.Error) THEN ResponseError(r.Error)
    ELSE <<>>

\* RequestActivity's error returns: no items, the error
ErrorReturn(err) == [returned |-> TRUE, items |-> <<>>, err |-> err]

\* one entry of the call history
Call(id, endpoint, offset, accounts, r) ==
    [item |-> id, endpoint |-> endpoint, offset |-> offset, accounts |-> accounts,
     kind |-> r.kind, Error |-> r.Error, Records |-> r.Records,
     Securities |-> r.Securities, Total |-> r.Total]

\* the calls made so far for one item on one endpoint, in order
CallsOf(log, id, endpoint) ==
    SelectSeq(log, LAMBDA c : c.item = id /\ c.endpoint = endpoint)

(***************************************************************************)
(* time.Time as run uses it.  An instant is the day count since 0001-01-01 *)
(* (the zero time), the second of that day and the nanosecond of that      *)
(* second; every instant of a run is in UTC (time.Parse with DateOnly).    *)
(***************************************************************************)
ZeroTime == [day |-> 0, sec |-> 0, nsec |-> 0]

\* time.Time.IsZero on an instant
IsZeroTime(t) == t = ZeroTime

\* time.Time.After: t is strictly later than u
After(t, u) ==
    \/ t.day > u.day
    \/ t.day = u.day /\ t.sec > u.sec
    \/ t.day = u.day /\ t.sec = u.sec /\ t.nsec > u.nsec

\* time.isLeap
isLeap(year) == year % 4 = 0 /\ (year % 100 # 0 \/ year % 400 = 0)

\* time.daysBefore: days of a common year before the first of the month
daysBefore(month) == <<0, 31, 59, 90, 120, 151, 181, 212, 243, 273, 304, 334>>[month]

\* time.daysIn
daysIn(month, year) ==
    IF month = 2 /\ isLeap(year) THEN 29
    ELSE <<31, 28, 31, 30, 31, 30, 31, 31, 30, 31, 30, 31>>[month]

\* days from 0001-01-01 to the first of January of the year
daysSinceEpoch(year) ==
    LET y == year - 1
    IN  365 * y + (y \div 4) - (y \div 100) + (y \div 400)

\* time.norm: <<hi, lo>> with lo brought into 0..base-1 by carrying into hi
norm(hi, lo, base) ==
    IF lo < 0
    THEN LET n == ((0 - lo - 1) \div base) + 1 IN <<hi - n, lo + n * base>>
    ELSE IF lo >= base
         THEN LET n == lo \div base IN <<hi + n, lo - n * base>>
         ELSE <<hi, lo>>

\* time.Date in UTC: out-of-range values are normalised, nanoseconds into
\* seconds, seconds into minutes, minutes into hours, hours into days and
\* months into years; a day outside the month is plain day arithmetic
Date(year, month, day, hour, min, sec, nsec) ==
    LET ym  == norm(year, month - 1, 12)
        y   == ym[1]
        m   == ym[2] + 1
        sn  == norm(sec, nsec, 1000000000)
        ms  == norm(min, sn[1], 60)
        hm  == norm(hour, ms[1], 60)
        dh  == norm(day, hm[1], 24)
        d   == daysSinceEpoch(y) + daysBefore(m)
                 + (IF isLeap(y) /\ m >= 3 THEN 1 ELSE 0) + dh[1] - 1
    IN  [day |-> d, sec |-> dh[2] * 3600 + hm[2] * 60 + ms[2], nsec |-> sn[2]]

\* time.Time.Date: the calendar date of an instant, found as the year the
\* day falls in, then the month of that year, then the day of that month
Civil(t) ==
    LET y    == CHOOSE year \in ((t.day \div 366) + 1)..((t.day \div 365) + 1) :
                    daysSinceEpoch(year) <= t.day /\ t.day < daysSinceEpoch(year + 1)
        yday == t.day - daysSinceEpoch(y)
        before(month) == daysBefore(month) + (IF isLeap(y) /\ month >= 3 THEN 1 ELSE 0)
        m    == CHOOSE month \in 1..12 :
                    before(month) <= yday /\ yday < before(month) + daysIn(month, y)
    IN  [year |-> y, month |-> m, day |-> yday - before(m) + 1]

\* time.Time.Year, Month, Day
Year(t) == Civil(t).year

Month(t) == Civil(t).month

Day(t) == Civil(t).day

\* time.Parse(time.DateOnly, ...) of a well-formed date: its midnight
ParseDate(year, month, day) == Date(year, month, day, 0, 0, 0, 0)

\* time.Time.AddDate leaving the day as it is
AddDate_NoDays(t, years, months, days) ==
    Date(Year(t) + years, Month(t) + months, Day(t),
         t.sec \div 3600, (t.sec % 3600) \div 60, t.sec % 60, t.nsec)

\* time.Time.AddDate: the civil date with the counts added, normalised by Date
AddDate(t, years, months, days) ==
    Date(Year(t) + years, Month(t) + months, Day(t) + days,
         t.sec \div 3600, (t.sec % 3600) \div 60, t.sec % 60, t.nsec)

\* two decimal digits of a month or day
Pad2(n) == IF n < 10 THEN "0" \o ToString(n) ELSE ToString(n)

\* time.Time.Format(time.DateOnly)
DateOnly(t) == ToString(Year(t)) \o "-" \o Pad2(Month(t)) \o "-" \o Pad2(Day(t))

(***************************************************************************)
(* State machine                                                           *)
(***************************************************************************)
\* run's export loop is not part of RequestActivity: its state stays unset
ExportNotStarted ==
    /\ start = ZeroTime
    /\ end = ZeroTime
    /\ clampSemimonthly = FALSE
    /\ clampEndDate = ZeroTime
    /\ sortOutput = FALSE
    /\ options = <<>>
    /\ activity = <<>>
    /\ transactionsOutput = <<>>
    /\ investmentsOutput = <<>>
    /\ endDate = ZeroTime
    /\ inclusiveEndDate = FALSE
    /\ request = <<>>

NotReturned == [returned |-> FALSE, items |-> <<>>, err |-> <<>>]

\* lines 81-84 leaving the item's ID out of its bundle
NewItemData_NoID(id) ==
    [ID |-> "", Transactions |-> <<>>, Investments |-> <<>>, Securities |-> EmptyMap]

NewItemData(id) ==
    [ID |-> id, Transactions |-> <<>>, Investments |-> <<>>, Securities |-> EmptyMap]

Init ==
    /\ config \in Configs
    /\ refreshThreshold \in Thresholds
    /\ pc = "range"
    /\ remaining = DOMAIN config
    /\ itemID = ""
    /\ res = NoStatus
    /\ item = NewItemData("")
    /\ items = <<>>
    /\ transactionsRes = NoResponse
    /\ transactionsTotal = 0
    /\ investmentsRes = NoResponse
    /\ investmentsTotal = 0
    /\ ret = NotReturned
    /\ calls = <<>>
    /\ provider = <<>>
    /\ ExportNotStarted

\* an error return of RequestActivity: the function is left with (nil, err)
Fail(err) ==
    /\ ret' = ErrorReturn(err)
    /\ pc' = "done"

\* lines 73-74: the range loop takes the next item, in map order (any order)
NextItem ==
    /\ pc = "range"
    /\ \E id \in remaining :
         /\ itemID' = id
         /\ remaining' = remaining \ {id}
    /\ pc' = IF ShouldCheckRefresh(refreshThreshold) THEN "checkRefresh" ELSE "newItem"
    /\ UNCHANGED <<runVars, provider, config, refreshThreshold, res, item, items, transactionsRes,
                   transactionsTotal, investmentsRes, investmentsTotal, ret, calls>>

\* checkRefresh, lines 135-139: now := time.Now(); requestItem
RequestItem ==
    /\ pc = "checkRefresh"
    /\ \E r \in ItemGetResponses :
         /\ calls' = Append(calls, Call(itemID, itemGetEndpoint, 0, {},
                                        [FailedResponse(r.kind) EXCEPT !.Error = r.Error]))
         /\ IF BasicRequestErr(r) # <<>>
            THEN /\ Fail(Errorf(<<"check refresh:">>, Errorf(<<"request item:">>, BasicRequestErr(r))))
                 /\ UNCHANGED res
            ELSE /\ res' = r.Status
                 /\ pc' = "transactionsAge"
                 /\ UNCHANGED ret
    /\ UNCHANGED <<runVars, provider, config, refreshThreshold, remaining, itemID, item, items,
                   transactionsRes, transactionsTotal, investmentsRes, investmentsTotal>>

\* checkRefresh, lines 141-155: the transactions refresh decision and request
RefreshTransactions ==
    /\ pc = "transactionsAge"
    /\ IF TransactionsStale(res, Now, refreshThreshold)
       THEN \E r \in RefreshResponses :
              /\ calls' = Append(calls, Call(itemID, transactionsRefreshEndpoint, 0, {}, r))
              /\ IF BasicRequestErr(r) # <<>>
                 THEN Fail(Errorf(<<"check refresh:">>,
                                  Errorf(<<"request item refresh:">>, BasicRequestErr(r))))
                 ELSE /\ pc' = "investmentsAge"
                      /\ UNCHANGED ret
       ELSE /\ pc' = "investmentsAge"
            /\ UNCHANGED <<ret, calls>>
    /\ UNCHANGED <<runVars, provider, config, refreshThreshold, remaining, itemID, res, item, items,
                   transactionsRes, transactionsTotal, investmentsRes, investmentsTotal>>

\* checkRefresh, lines 157-171: the investments refresh decision and request
RefreshInvestments ==
    /\ pc = "investmentsAge"
    /\ IF InvestmentsStale(res, Now, refreshThreshold)
       THEN \E r \in RefreshResponses :
              /\ calls' = Append(calls, Call(itemID, investmentsRefreshEndpoint, 0, {}, r))
              /\ IF BasicRequestErr(r) # <<>>
                 THEN Fail(Errorf(<<"check refresh:">>,
                                  Errorf(<<"request item refresh:">>, BasicRequestErr(r))))
                 ELSE /\ pc' = "refreshed"
                      /\ UNCHANGED ret
       ELSE /\ pc' = "refreshed"
            /\ UNCHANGED <<ret, calls>>
    /\ UNCHANGED <<runVars, provider, config, refreshThreshold, remaining, itemID, res, item, items,
                   transactionsRes, transactionsTotal, investmentsRes, investmentsTotal>>

\* checkRefresh, line 173: return nil; its locals go out of scope
CheckRefreshReturn ==
    /\ pc = "refreshed"
    /\ pc' = "newItem"
    /\ res' = NoStatus
    /\ UNCHANGED <<runVars, provider, config, refreshThreshold, remaining, itemID, item, items,
                   transactionsRes, transactionsTotal, investmentsRes, investmentsTotal,
                   ret, calls>>

\* lines 81-84: the fresh ItemData
NewItem ==
    /\ pc = "newItem"
    /\ item' = NewItemData(itemID)
    /\ pc' = "transactions"
    /\ UNCHANGED <<runVars, provider, config, refreshThreshold, remaining, itemID, res, items,
                   transactionsRes, transactionsTotal, investmentsRes, investmentsTotal,
                   ret, calls>>

\* lines 86-93: the first transactions page, at offset 0, when accounts are configured
FirstTransactions ==
    /\ pc = "transactions"
    /\ IF Requested(config[itemID].Transactions)
       THEN \E r \in TransactionsResponses :
              /\ calls' = Append(calls, Call(itemID, transactionsEndpoint, 0,
                                             config[itemID].Transactions, r))
              /\ IF PageRequestErr(r) # <<>>
                 THEN /\ Fail(Errorf(<<"request item", itemID, "transactions:">>, PageRequestErr(r)))
                      /\ UNCHANGED <<item, transactionsRes, transactionsTotal>>
                 ELSE /\ item' = [item EXCEPT !.Transactions = AppendPage(@, r.Records)]
                      /\ transactionsRes' = r
                      /\ transactionsTotal' = r.Total
                      /\ pc' = "transactionsLoop"
                      /\ UNCHANGED ret
       ELSE /\ pc' = "investments"
            /\ UNCHANGED <<item, transactionsRes, transactionsTotal, ret, calls>>
    /\ UNCHANGED <<runVars, provider, config, refreshThreshold, remaining, itemID, res, items,
                   investmentsRes, investmentsTotal>>

\* lines 94-101: one turn of the transactions loop, or its exit
MoreTransactions ==
    /\ pc = "transactionsLoop"
    /\ IF MorePages(transactionsRes.Total)
       THEN /\ Len(CallsOf(calls, itemID, transactionsEndpoint)) < MaxPages
            /\ \E r \in TransactionsResponses :
                 /\ calls' = Append(calls, Call(itemID, transactionsEndpoint, transactionsTotal,
                                                config[itemID].Transactions, r))
                 /\ IF PageRequestErr(r) # <<>>
                    THEN /\ Fail(Errorf(<<"request item", itemID, "transactions:">>, PageRequestErr(r)))
                         /\ UNCHANGED <<item, transactionsRes, transactionsTotal>>
                    ELSE /\ item' = [item EXCEPT !.Transactions = AppendPage(@, r.Records)]
                         /\ transactionsRes' = r
                         /\ transactionsTotal' = NextOffset(transactionsTotal, r)
                         /\ UNCHANGED <<pc, ret>>
       ELSE /\ pc' = "investments"
            /\ transactionsRes' = NoResponse
            /\ transactionsTotal' = 0
            /\ UNCHANGED <<item, ret, calls>>
    /\ UNCHANGED <<runVars, provider, config, refreshThreshold, remaining, itemID, res, items,
                   investmentsRes, investmentsTotal>>

\* lines 104-114: the first investments page, at offset 0, when accounts are configured
FirstInvestments ==
    /\ pc = "investments"
    /\ IF Requested(config[itemID].Investments)
       THEN \E r \in InvestmentsResponses :
              /\ calls' = Append(calls, Call(itemID, investmentsEndpoint, 0,
                                             config[itemID].Investments, r))
              /\ IF PageRequestErr(r) # <<>>
                 THEN /\ Fail(Errorf(<<"request item", itemID, "investments:">>, PageRequestErr(r)))
                      /\ UNCHANGED <<item, investmentsRes, investmentsTotal>>
                 ELSE /\ item' = [item EXCEPT
                                    !.Investments = AppendPage(@, r.Records),
                                    !.Securities = MergeSecurities(@, r.Securities)]
                      /\ investmentsRes' = r
                      /\ investmentsTotal' = r.Total
                      /\ pc' = "investmentsLoop"
                      /\ UNCHANGED ret
       ELSE /\ pc' = "append"
            /\ UNCHANGED <<item, investmentsRes, investmentsTotal, ret, calls>>
    /\ UNCHANGED <<runVars, provider, config, refreshThreshold, remaining, itemID, res, items,
                   transactionsRes, transactionsTotal>>

\* lines 115-125: one turn of the investments loop, or its exit
MoreInvestments ==
    /\ pc = "investmentsLoop"
    /\ IF MorePages(investmentsRes.Total)
       THEN /\ Len(CallsOf(calls, itemID, investmentsEndpoint)) < MaxPages
            /\ \E r \in InvestmentsResponses :
                 /\ calls' = Append(calls, Call(itemID, investmentsEndpoint, investmentsTotal,
                                                config[itemID].Investments, r))
                 /\ IF PageRequestErr(r) # <<>>
                    THEN /\ Fail(Errorf(<<"request item", itemID, "investments:">>, PageRequestErr(r)))
                         /\ UNCHANGED <<item, investmentsRes, investmentsTotal>>
                    ELSE /\ item' = [item EXCEPT
                                       !.Investments = AppendPage(@, r.Records),
                                       !.Securities = MergeSecurities(@, r.Securities)]
                         /\ investmentsRes' = r
                         /\ investmentsTotal' = NextOffset(investmentsTotal, r)
                         /\ UNCHANGED <<pc, ret>>
       ELSE /\ pc' = "append"
            /\ investmentsRes' = NoResponse
            /\ investmentsTotal' = 0
            /\ UNCHANGED <<item, ret, calls>>
    /\ UNCHANGED <<runVars, provider, config, refreshThreshold, remaining, itemID, res, items,
                   transactionsRes, transactionsTotal>>

\* line 128: items = append(items, item)
AppendItem ==
    /\ pc = "append"
    /\ items' = Append(items, item)
    /\ pc' = "range"
    /\ UNCHANGED <<runVars, provider, config, refreshThreshold, remaining, itemID, res, item,
                   transactionsRes, transactionsTotal, investmentsRes, investmentsTotal,
                   ret, calls>>

\* line 131: the range loop is over, return items, nil
Return ==
    /\ pc = "range"
    /\ remaining = {}
    /\ ret' = [returned |-> TRUE, items |-> items, err |-> <<>>]
    /\ pc' = "done"
    /\ UNCHANGED <<runVars, provider, config, refreshThreshold, remaining, itemID, res, item, items,
                   transactionsRes, transactionsTotal, investmentsRes, investmentsTotal,
                   calls>>

Next ==
    \/ NextItem
    \/ RequestItem
    \/ RefreshTransactions
    \/ RefreshInvestments
    \/ CheckRefreshReturn
    \/ NewItem
    \/ FirstTransactions
    \/ MoreTransactions
    \/ FirstInvestments
    \/ MoreInvestments
    \/ AppendItem
    \/ Return

Spec == Init /\ [][Next]_vars

(***************************************************************************)
(* RequestActivity against a provider that holds a fixed number of records *)
(* for each stream's query, answers a request with the records from the    *)
(* requested offset up to the requested count, and reports the number it   *)
(* holds as the total on every page.  The refresh check is off.  The loops *)
(* of lines 94-101 and 115-125 are followed turn by turn, test and request *)
(* apart.                                                                  *)
(***************************************************************************)
PagingConfigs ==
    { [i \in {"item1"} |-> [Transactions |-> {"acct1"}, Investments |-> {"acct2"}]],
      [i \in {"item1", "item2"} |->
          IF i = "item1" THEN [Transactions |-> {"acct1"}, Investments |-> {}]
                         ELSE [Transactions |-> {}, Investments |-> {"acct2"}]] }

\* the provider's answer to a request for maxTransactionCount records from
\* an offset, of a stream with the given number of records
Page(held, offset) ==
    LET left == IF held > offset THEN held - offset ELSE 0
        count == IF left > maxTransactionCount THEN maxTransactionCount ELSE left
    IN  [kind |-> "ok", Error |-> NoError, Records |-> [k \in 1..count |-> offset + k],
         Securities |-> <<>>, Total |-> held]

\* an offset as the paging model keeps it
Saturated(offset) == IF offset > MaxOffset THEN MaxOffset ELSE offset

PagingInit ==
    /\ config \in PagingConfigs
    /\ refreshThreshold = RefreshThresholdLimit
    /\ provider \in [Transactions : Holdings, Investments : Holdings]
    /\ pc = "range"
    /\ remaining = DOMAIN config
    /\ itemID = ""
    /\ res = NoStatus
    /\ item = NewItemData("")
    /\ items = <<>>
    /\ transactionsRes = NoResponse
    /\ transactionsTotal = 0
    /\ investmentsRes = NoResponse
    /\ investmentsTotal = 0
    /\ ret = NotReturned
    /\ calls = <<>>
    /\ ExportNotStarted

\* lines 86-93: the first transactions page, at offset 0
PagingFirstTransactions ==
    /\ pc = "transactions"
    /\ IF Requested(config[itemID].Transactions)
       THEN LET r == Page(provider.Transactions, 0)
            IN  IF PageRequestErr(r) # <<>>
                THEN /\ Fail(Errorf(<<"request item", itemID, "transactions:">>,
                                    PageRequestErr(r)))
                     /\ UNCHANGED <<item, transactionsRes, transactionsTotal>>
                ELSE /\ item' = [item EXCEPT !.Transactions = AppendPage(@, r.Records)]
                     /\ transactionsRes' = r
                     /\ transactionsTotal' = Saturated(r.Total)
                     /\ pc' = "transactionsLoop"
                     /\ UNCHANGED ret
       ELSE /\ pc' = "investments"
            /\ UNCHANGED <<item, transactionsRes, transactionsTotal, ret>>
    /\ UNCHANGED <<runVars, provider, config, refreshThreshold, remaining, itemID, res, items,
                   investmentsRes, investmentsTotal, calls>>

\* line 94: the loop condition of the transactions stream
PagingTransactionsLoop ==
    /\ pc = "transactionsLoop"
    /\ IF MorePages(transactionsRes.Total)
       THEN /\ pc' = "transactionsPage"
            /\ UNCHANGED <<transactionsRes, transactionsTotal>>
       ELSE /\ pc' = "investments"
            /\ transactionsRes' = NoResponse
            /\ transactionsTotal' = 0
    /\ UNCHANGED <<runVars, provider, config, refreshThreshold, remaining, itemID, res, item,
                   items, investmentsRes, investmentsTotal, ret, calls>>

\* lines 95-100: the next transactions page, at the accumulated offset
PagingTransactionsPage ==
    /\ pc = "transactionsPage"
    /\ LET r == Page(provider.Transactions, transactionsTotal)
       IN  IF PageRequestErr(r) # <<>>
           THEN /\ Fail(Errorf(<<"request item", itemID, "transactions:">>, PageRequestErr(r)))
                /\ UNCHANGED <<item, transactionsRes, transactionsTotal>>
           ELSE /\ item' = [item EXCEPT !.Transactions = AppendPage(@, r.Records)]
                /\ transactionsRes' = r
                /\ transactionsTotal' = Saturated(NextOffset(transactionsTotal, r))
                /\ pc' = "transactionsLoop"
                /\ UNCHANGED ret
    /\ UNCHANGED <<runVars, provider, config, refreshThreshold, remaining, itemID, res, items,
                   investmentsRes, investmentsTotal, calls>>

\* lines 104-114: the first investments page, at offset 0
PagingFirstInvestments ==
    /\ pc = "investments"
    /\ IF Requested(config[itemID].Investments)
       THEN LET r == Page(provider.Investments, 0)
            IN  IF PageRequestErr(r) # <<>>
                THEN /\ Fail(Errorf(<<"request item", itemID, "investments:">>,
                                    PageRequestErr(r)))
                     /\ UNCHANGED <<item, investmentsRes, investmentsTotal>>
                ELSE /\ item' = [item EXCEPT
                                   !.Investments = AppendPage(@, r.Records),
                                   !.Securities = MergeSecurities(@, r.Securities)]
                     /\ investmentsRes' = r
                     /\ investmentsTotal' = Saturated(r.Total)
                     /\ pc' = "investmentsLoop"
                     /\ UNCHANGED ret
       ELSE /\ pc' = "append"
            /\ UNCHANGED <<item, investmentsRes, investmentsTotal, ret>>
    /\ UNCHANGED <<runVars, provider, config, refreshThreshold, remaining, itemID, res, items,
                   transactionsRes, transactionsTotal, calls>>

\* line 115: the loop condition of the investments stream
PagingInvestmentsLoop ==
    /\ pc = "investmentsLoop"
    /\ IF MorePages(investmentsRes.Total)
       THEN /\ pc' = "investmentsPage"
            /\ UNCHANGED <<investmentsRes, investmentsTotal>>
       ELSE /\ pc' = "append"
            /\ investmentsRes' = NoResponse
            /\ investmentsTotal' = 0
    /\ UNCHANGED <<runVars, provider, config, refreshThreshold, remaining, itemID, res, item,
                   items, transactionsRes, transactionsTotal, ret, calls>>

\* lines 116-124: the next investments page, at the accumulated offset
PagingInvestmentsPage ==
    /\ pc = "investmentsPage"
    /\ LET r == Page(provider.Investments, investmentsTotal)
       IN  IF PageRequestErr(r) # <<>>
           THEN /\ Fail(Errorf(<<"request item", itemID, "investments:">>, PageRequestErr(r)))
                /\ UNCHANGED <<item, investmentsRes, investmentsTotal>>
           ELSE /\ item' = [item EXCEPT
                              !.Investments = AppendPage(@, r.Records),
                              !.Securities = MergeSecurities(@, r.Securities)]
                /\ investmentsRes' = r
                /\ investmentsTotal' = Saturated(NextOffset(investmentsTotal, r))
                /\ pc' = "investmentsLoop"
                /\ UNCHANGED ret
    /\ UNCHANGED <<runVars, provider, config, refreshThreshold, remaining, itemID, res, items,
                   transactionsRes, transactionsTotal, calls>>

PagingNext ==
    \/ NextItem
    \/ NewItem
    \/ PagingFirstTransactions
    \/ PagingTransactionsLoop
    \/ PagingTransactionsPage
    \/ PagingFirstInvestments
    \/ PagingInvestmentsLoop
    \/ PagingInvestmentsPage
    \/ AppendItem
    \/ Return

\* RequestActivity is a sequential function: it takes a step whenever it can
PagingSpec == PagingInit /\ [][PagingNext]_vars /\ WF_vars(PagingNext)

(***************************************************************************)
(* run: the export loop over the fetched activity (clamp, sort, write).    *)
(* Records and inputs.                                                     *)
(***************************************************************************)
\* the longest slice sort.Slice still sorts by insertion (sort.Slice is
\* pdqsort; its insertion sort is the only part that keeps equal records
\* in place)
maxInsertion == 12

DefaultPostDateFormat == "2006-01-02"

DefaultAuthDateFormat == "2006-01-02"

DefaultAmountFormat == "%0.2f"

DefaultCategoryDelimiter == "."

\* a Transaction of the provider; the fields no case depends on are fixed
Transaction(id, date, authorized, pending) ==
    [ID |-> id, AccountID |-> "acct1", Amount |-> "12.5", ISOCurrency |-> "USD",
     UnofficialCurrency |-> "", CheckNumber |-> "", Category |-> <<"Food", "Coffee">>,
     Date |-> date, AuthorizedDate |-> authorized, Name |-> "Cafe",
     MerchantName |-> "", Pending |-> pending]

\* an InvestmentTransaction of the provider, likewise
InvestmentTransaction(id, date, type, subtype) ==
    [ID |-> id, AccountID |-> "acct2", SecurityID |-> "s1", Date |-> date,
     Amount |-> "100", Price |-> "50", Fees |-> "1", Quantity |-> "2",
     Type |-> type, Subtype |-> subtype, ISOCurrency |-> "USD",
     UnofficialCurrency |-> ""]

\* the securities of an exported bundle, security ID -> Security
ExportSecurities ==
    [id \in {"s1", "s2"} |->
        IF id = "s1"
        THEN [ID |-> "s1", Name |-> "Alpha", TickerSymbol |-> "ALP",
              Sector |-> "Tech", Industry |-> "Software"]
        ELSE [ID |-> "s2", Name |-> "Beta", TickerSymbol |-> "",
              Sector |-> "", Industry |-> ""]]

\* config.Items of an export: item ID -> ItemConfig, account IDs -> names
ExportConfig ==
    [i \in {"item1", "item2"} |->
        [Name |-> IF i = "item1" THEN "Bank" ELSE "Broker",
         Transactions |-> [a \in {"acct1"} |-> "Checking"],
         Investments |-> [a \in {"acct2"} |-> "Brokerage"]]]

\* the --start and --end dates of a run
DateRanges ==
    { [start |-> ParseDate(2024, 2, 1),   end |-> ParseDate(2024, 3, 10)],
      [start |-> ParseDate(2024, 3, 1),   end |-> ParseDate(2024, 3, 20)],
      [start |-> ParseDate(2024, 3, 1),   end |-> ParseDate(2024, 3, 15)],
      [start |-> ParseDate(2024, 2, 1),   end |-> ParseDate(2024, 3, 14)],
      [start |-> ParseDate(2023, 12, 10), end |-> ParseDate(2024, 1, 5)],
      [start |-> ParseDate(2024, 2, 1),   end |-> ParseDate(2024, 2, 29)] }

\* transactions around the boundaries of those ranges, unsorted; the last
\* two carry an authorized date on the other side of a boundary
DatedTransactions ==
    << Transaction("d1", ParseDate(2024, 3, 5), ZeroTime, FALSE),
       Transaction("d2", ParseDate(2024, 3, 12), ZeroTime, TRUE),
       Transaction("d3", ParseDate(2024, 2, 29), ZeroTime, FALSE),
       Transaction("d4", ParseDate(2024, 3, 1), ZeroTime, FALSE),
       Transaction("d5", ParseDate(2024, 1, 31), ZeroTime, FALSE),
       Transaction("d6", ParseDate(2024, 2, 1), ZeroTime, TRUE),
       Transaction("d7", ParseDate(2024, 3, 15), ZeroTime, FALSE),
       Transaction("d8", ParseDate(2024, 3, 16), ZeroTime, FALSE),
       Transaction("d9", ParseDate(2023, 12, 31), ZeroTime, FALSE),
       Transaction("d10", ParseDate(2024, 1, 1), ZeroTime, FALSE),
       Transaction("d11", ParseDate(2024, 3, 2), ParseDate(2024, 2, 28), FALSE),
       Transaction("d12", ParseDate(2024, 2, 28), ParseDate(2024, 3, 2), FALSE) >>

DatedInvestments ==
    << InvestmentTransaction("i1", ParseDate(2024, 3, 5), "buy", "buy"),
       InvestmentTransaction("i2", ParseDate(2024, 2, 29), "cash", "dividend"),
       InvestmentTransaction("i3", ParseDate(2024, 3, 15), "fee", "management fee"),
       InvestmentTransaction("i4", ParseDate(2024, 3, 16), "sell", "sell"),
       InvestmentTransaction("i5", ParseDate(2023, 12, 31), "cash", "stock distribution"),
       InvestmentTransaction("i6", ParseDate(2024, 2, 1), "buy", "buy") >>

\* three transactions of one day between others, out of order
SameDayTransactions ==
    << Transaction("e1", ParseDate(2024, 2, 20), ZeroTime, FALSE),
       Transaction("e2", ParseDate(2024, 2, 10), ZeroTime, TRUE),
       Transaction("e3", ParseDate(2024, 2, 20), ZeroTime, FALSE),
       Transaction("e4", ParseDate(2024, 2, 10), ZeroTime, FALSE),
       Transaction("e5", ParseDate(2024, 2, 5), ZeroTime, TRUE),
       Transaction("e6", ParseDate(2024, 2, 10), ZeroTime, FALSE) >>

SameDayInvestments ==
    << InvestmentTransaction("j1", ParseDate(2024, 2, 20), "buy", "buy"),
       InvestmentTransaction("j2", ParseDate(2024, 2, 10), "cash", "dividend"),
       InvestmentTransaction("j3", ParseDate(2024, 2, 10), "sell", "sell") >>

\* one more transaction than insertion sort takes: the days of February
\* 2024 backwards, the first pending, the last two on the same day
LongTransactions ==
    [k \in 1..(maxInsertion + 1) |->
        Transaction("l" \o ToString(k),
                    ParseDate(2024, 2, IF k = maxInsertion + 1 THEN 2 ELSE 14 - k),
                    ZeroTime, k = 1)]

\* the same list already in date order
LongSortedTransactions ==
    [k \in 1..(maxInsertion + 1) |->
        Transaction("m" \o ToString(k),
                    ParseDate(2024, 2, IF k = 1 THEN 2 ELSE k),
                    ZeroTime, FALSE)]

\* transactions with every combination of name and merchant name and of
\* ISO and unofficial currency code, pending or not
NamedTransactions ==
    << [Transaction("w1", ParseDate(2024, 2, 10), ZeroTime, FALSE) EXCEPT
           !.Name = "Cafe", !.MerchantName = "Cafe Inc",
           !.ISOCurrency = "USD", !.UnofficialCurrency = "BTC"],
       [Transaction("w2", ParseDate(2024, 2, 12), ZeroTime, TRUE) EXCEPT
           !.Name = "", !.MerchantName = "Cafe Inc",
           !.ISOCurrency = "", !.UnofficialCurrency = "BTC"],
       [Transaction("w3", ParseDate(2024, 2, 11), ParseDate(2024, 2, 9), FALSE) EXCEPT
           !.Name = "Cafe", !.MerchantName = "",
           !.ISOCurrency = "USD", !.UnofficialCurrency = ""],
       [Transaction("w4", ParseDate(2024, 2, 11), ZeroTime, TRUE) EXCEPT
           !.Name = "", !.MerchantName = "",
           !.ISOCurrency = "", !.UnofficialCurrency = ""] >>

\* cash, fee and security records with every combination of currency codes
NamedInvestments ==
    << [InvestmentTransaction("v1", ParseDate(2024, 2, 10), "buy", "buy") EXCEPT
           !.ISOCurrency = "USD", !.UnofficialCurrency = "BTC"],
       [InvestmentTransaction("v2", ParseDate(2024, 2, 12), "cash", "dividend") EXCEPT
           !.ISOCurrency = "USD", !.UnofficialCurrency = "BTC"],
       [InvestmentTransaction("v3", ParseDate(2024, 2, 11), "fee", "management fee") EXCEPT
           !.ISOCurrency = "", !.UnofficialCurrency = "BTC"],
       InvestmentTransaction("v4", ParseDate(2024, 2, 11), "cash", "stock distribution"),
       [InvestmentTransaction("v5", ParseDate(2024, 2, 9), "sell", "sell") EXCEPT
           !.SecurityID = "s2", !.ISOCurrency = "", !.UnofficialCurrency = ""],
       InvestmentTransaction("v6", ParseDate(2024, 2, 9), "cash", "deposit") >>

\* a pending transaction of an account the configuration does not name
UnknownAccountTransactions ==
    << Transaction("u1", ParseDate(2024, 2, 10), ZeroTime, FALSE),
       [Transaction("u2", ParseDate(2024, 2, 11), ZeroTime, TRUE) EXCEPT
           !.AccountID = "acctX"],
       Transaction("u3", ParseDate(2024, 2, 12), ZeroTime, FALSE) >>

\* a security record of a security no page described
UnknownSecurityInvestments ==
    << InvestmentTransaction("x1", ParseDate(2024, 2, 10), "cash", "dividend"),
       [InvestmentTransaction("x2", ParseDate(2024, 2, 11), "buy", "buy") EXCEPT
           !.SecurityID = "sX"] >>

\* a cash record that is rendered nowhere, of a security no page described
UndescribedDistribution ==
    << [InvestmentTransaction("y1", ParseDate(2024, 2, 10), "cash", "stock distribution")
           EXCEPT !.SecurityID = "sX"] >>

\* a cash record and a security record of an account the configuration
\* does not name, and a cash record of an unknown security
UnknownAccountCash ==
    << InvestmentTransaction("y2", ParseDate(2024, 2, 10), "buy", "buy"),
       [InvestmentTransaction("y3", ParseDate(2024, 2, 11), "cash", "dividend") EXCEPT
           !.AccountID = "acctX"] >>

UnknownAccountSecurity ==
    << InvestmentTransaction("y4", ParseDate(2024, 2, 10), "fee", "management fee"),
       [InvestmentTransaction("y5", ParseDate(2024, 2, 11), "sell", "sell") EXCEPT
           !.AccountID = "acctX"] >>

UnknownSecurityCash ==
    << [InvestmentTransaction("y6", ParseDate(2024, 2, 10), "fee", "management fee") EXCEPT
           !.SecurityID = "sX"] >>

Bundle(id, transactions, investments) ==
    [ID |-> id, Transactions |-> transactions, Investments |-> investments,
     Securities |-> ExportSecurities]

\* what RequestActivity handed to the export loop
Activities ==
    { << Bundle("item1", DatedTransactions, DatedInvestments) >>,
      << Bundle("item1", SameDayTransactions, SameDayInvestments) >>,
      << Bundle("item1", LongTransactions, <<>>) >>,
      << Bundle("item1", LongSortedTransactions, <<>>) >>,
      << Bundle("item1", NamedTransactions, NamedInvestments) >>,
      << Bundle("item1", UnknownAccountTransactions, NamedInvestments) >>,
      << Bundle("item1", NamedTransactions, UnknownSecurityInvestments) >>,
      << Bundle("itemX", NamedTransactions, NamedInvestments),
         Bundle("item1", SameDayTransactions, NamedInvestments) >>,
      << Bundle("item1", <<>>, <<>>),
         Bundle("item1", NamedTransactions, SameDayInvestments) >>,
      << Bundle("item1", UnknownAccountTransactions, NamedInvestments),
         Bundle("item2", NamedTransactions, NamedInvestments) >>,
      << Bundle("item1", NamedTransactions, UnknownSecurityInvestments),
         Bundle("item2", SameDayTransactions, SameDayInvestments) >>,
      << Bundle("item1", NamedTransactions, UndescribedDistribution) >>,
      << Bundle("item1", NamedTransactions, UnknownAccountCash) >>,
      << Bundle("item1", NamedTransactions, UnknownAccountSecurity) >>,
      << Bundle("item1", <<>>, UnknownSecurityCash) >> }

\* lines 138-149 and 155-168 of run: the header rows
TransactionsHeaders ==
    << "Post Date", "Authorized Date", "Account", "Account Name", "Check Number",
       "Payee", "Amount", "Currency", "Category", "Transaction ID" >>

InvestmentsHeaders ==
    << "Post Date", "Account", "Account Name", "Name", "Quantity", "Amount", "Price",
       "Transaction ID", "Fee", "Fee Currency", "Ticker Symbol", "Category" >>

\* lines 180-186 of run: the options, every format flag at its default
WriteOptions(omitPending) ==
    [OmitPending |-> omitPending,
     PostDateFormat |-> DefaultPostDateFormat,
     AuthDateFormat |-> DefaultAuthDateFormat,
     AmountFormat |-> DefaultAmountFormat,
     CommodityPriceFormat |-> "",
     CategoryDelimiter |-> DefaultCategoryDelimiter]

(***************************************************************************)
(* run: semimonthly clamping, lines 194-226                                *)
(***************************************************************************)
\* lines 195-201 taking the end date itself as the boundary
ClampEndDate_EndItself(e) == e

\* lines 196-200 with the half-month split after the 15th instead of before
ClampEndDate_FifteenthInFirstHalf(e) ==
    IF Day(e) <= 15
    THEN Date(Year(e), Month(e), 1, 0, 0, 0, -1)
    ELSE Date(Year(e), Month(e), 16, 0, 0, 0, -1)

\* lines 195-201: one nanosecond before the 1st or before the 16th of the
\* end date's month
ClampEndDate(e) ==
    IF Day(e) < 15
    THEN Date(Year(e), Month(e), 1, 0, 0, 0, -1)
    ELSE Date(Year(e), Month(e), 16, 0, 0, 0, -1)

\* the test of lines 206, 210 and 220: the date is after the boundary or
\* the start is after the date
ClampedOut(date, s, boundary) == After(date, boundary) \/ After(s, date)

\* lines 203-217 testing the post date of every transaction
ClampTransactions_PostDateOnly(transactions, s, boundary) ==
    SelectSeq(transactions, LAMBDA t : ~ClampedOut(t.Date, s, boundary))

\* lines 203-217: the transactions the clamp keeps, in order
ClampTransactions(transactions, s, boundary) ==
    SelectSeq(transactions,
              LAMBDA t : IF IsZeroTime(t.AuthorizedDate)
                         THEN ~ClampedOut(t.Date, s, boundary)
                         ELSE ~ClampedOut(t.AuthorizedDate, s, boundary))

\* lines 218-225: the investment records the clamp keeps, in order
ClampInvestments(investments, s, boundary) ==
    SelectSeq(investments, LAMBDA v : ~ClampedOut(v.Date, s, boundary))

(***************************************************************************)
(* run: sorting, lines 228-235.  sort.Slice promises an order, not         *)
(* stability: up to maxInsertion records it is an insertion sort, which    *)
(* keeps equal records in place; a longer slice that is already in order   *)
(* is left as it is; any other longer slice comes back in some order that  *)
(* is sorted, equal records in any arrangement.                            *)
(***************************************************************************)
\* the less function of lines 229-231 and 232-234
Less(a, b) == After(b.Date, a.Date)

\* sort.insertionSort: each record moves left past the records it is less than
RECURSIVE Insert(_, _)
Insert(sorted, r) ==
    IF sorted = <<>> THEN <<r>>
    ELSE LET last == sorted[Len(sorted)]
         IN  IF Less(r, last)
             THEN Append(Insert(SubSeq(sorted, 1, Len(sorted) - 1), r), last)
             ELSE Append(sorted, r)

RECURSIVE InsertionSort(_)
InsertionSort(list) ==
    IF list = <<>> THEN <<>>
    ELSE Insert(InsertionSort(SubSeq(list, 1, Len(list) - 1)), list[Len(list)])

\* no record is less than the one before it
IsSorted(list) == \A k \in 2..Len(list) : ~Less(list[k], list[k - 1])

\* the list without its k-th record
Without(list, k) == SubSeq(list, 1, k - 1) \o SubSeq(list, k + 1, Len(list))

\* every arrangement of a list in date order that is itself in date order
RECURSIVE Arrangements(_)
Arrangements(sorted) ==
    IF sorted = <<>> THEN { <<>> }
    ELSE UNION { { <<sorted[k]>> \o rest : rest \in Arrangements(Without(sorted, k)) } :
                 k \in { j \in DOMAIN sorted : ~Less(sorted[1], sorted[j]) } }

\* sort.Slice leaving any sorted arrangement at every length, in order or not
SortSlice_AnyArrangement(list) == Arrangements(InsertionSort(list))

\* lines 229 and 232: the results sort.Slice can leave in the slice
SortSlice(list) ==
    IF Len(list) <= maxInsertion THEN { InsertionSort(list) }
    ELSE IF IsSorted(list) THEN { list }
    ELSE Arrangements(InsertionSort(list))

(***************************************************************************)
(* The writers of src/unnamed/part_000, lines 272-414.  A csv.Writer is    *)
(* the rows it still buffers and the rows that reached its file.           *)
(***************************************************************************)
\* csv.NewWriter
NewWriter == [buffer |-> <<>>, file |-> <<>>]

\* csv.Writer.Write: the row is buffered
Write(output, row) == [output EXCEPT !.buffer = Append(@, row)]

\* csv.Writer.Flush: the buffered rows reach the file
Flush(output) == [buffer |-> <<>>, file |-> output.file \o output.buffer]

\* Date.Format, plaid.go lines 620-625: nothing for the zero date, else
\* time.Format; the date-only layout gives year-month-day, any other layout
\* is kept with the date it would render
Format(d, layout) ==
    IF IsZeroTime(d) THEN ""
    ELSE IF layout = "2006-01-02"
         THEN ToString(Year(d)) \o "-" \o Pad2(Month(d)) \o "-" \o Pad2(Day(d))
         ELSE <<layout, Civil(d)>>

\* fmt.Sprintf of one number: the format and the number it is applied to
Sprintf(format, value) == <<format, value>>

\* strings.Join
RECURSIVE Join(_, _)
Join(elems, sep) ==
    IF elems = <<>> THEN ""
    ELSE IF Len(elems) = 1 THEN elems[1]
    ELSE elems[1] \o sep \o Join(Tail(elems), sep)

\* lines 279-282 preferring the merchant name
Payee_MerchantFirst(transaction) ==
    IF transaction.MerchantName # "" THEN transaction.MerchantName ELSE transaction.Name

\* lines 279-282: the merchant name, replaced by the name when there is one
Payee(transaction) ==
    IF transaction.Name # "" THEN transaction.Name ELSE transaction.MerchantName

\* lines 289-292 preferring the ISO code
Currency_ISOFirst(transaction) ==
    IF transaction.ISOCurrency # "" THEN transaction.ISOCurrency
    ELSE transaction.UnofficialCurrency

\* lines 289-292, 332-335, 373-376: the ISO code, replaced by the
\* unofficial code when there is one
Currency(transaction) ==
    IF transaction.UnofficialCurrency # "" THEN transaction.UnofficialCurrency
    ELSE transaction.ISOCurrency

\* lines 295-306: the row of a transaction
TransactionRow(itemConfig, transaction, opts) ==
    << Format(transaction.Date, opts.PostDateFormat),
       Format(transaction.AuthorizedDate, opts.AuthDateFormat),
       itemConfig.Transactions[transaction.AccountID],
       itemConfig.Name,
       transaction.CheckNumber,
       Payee(transaction),
       Sprintf(opts.AmountFormat, transaction.Amount),
       Currency(transaction),
       Join(transaction.Category, opts.CategoryDelimiter),
       transaction.ID >>

\* lines 338-349 with the type alone as the category
CashRow_TypeOnly(itemConfig, securities, transaction, opts) ==
    << Format(transaction.Date, opts.PostDateFormat),
       "",
       itemConfig.Investments[transaction.AccountID],
       itemConfig.Name,
       "",
       securities[transaction.SecurityID].Name,
       Sprintf(opts.AmountFormat, transaction.Amount),
       Currency(transaction),
       transaction.Type,
       transaction.ID >>

\* lines 338-349: the row of a cash or fee investment record
CashRow(itemConfig, securities, transaction, opts) ==
    << Format(transaction.Date, opts.PostDateFormat),
       "",
       itemConfig.Investments[transaction.AccountID],
       itemConfig.Name,
       "",
       securities[transaction.SecurityID].Name,
       Sprintf(opts.AmountFormat, transaction.Amount),
       Currency(transaction),
       transaction.Type \o "." \o transaction.Subtype,
       transaction.ID >>

\* lines 383-386: sector and industry, or "unknown" when both are empty
SecurityCategory(security) ==
    IF security.Sector \o "." \o security.Industry = "." THEN "unknown"
    ELSE security.Sector \o "." \o security.Industry

\* lines 389-402: the row of a security investment record
InvestmentRow(itemConfig, securities, transaction, opts) ==
    << Format(transaction.Date, opts.PostDateFormat),
       itemConfig.Investments[transaction.AccountID],
       itemConfig.Name,
       securities[transaction.SecurityID].Name,
       Sprintf("%v", transaction.Quantity),
       Sprintf(opts.AmountFormat, transaction.Amount),
       Sprintf(opts.CommodityPriceFormat, transaction.Price),
       transaction.ID,
       Sprintf(opts.AmountFormat, transaction.Fees),
       Currency(transaction),
       securities[transaction.SecurityID].TickerSymbol,
       SecurityCategory(securities[transaction.SecurityID]) >>

\* what a writer hands back: its error, its count and the csv.Writer
Written(err, count, output) == [err |-> err, count |-> count, output |-> output]

\* lines 274-277 never skipping a transaction
Skipped_Never(transaction, opts) == FALSE

\* lines 274-277: a pending transaction is skipped under OmitPending
Skipped(transaction, opts) == opts.OmitPending /\ transaction.Pending

\* lines 273-310: the loop over item.Transactions
RECURSIVE WriteTransactionRows(_, _, _, _, _)
WriteTransactionRows(itemConfig, output, transactions, opts, count) ==
    IF transactions = <<>> THEN Written(<<>>, count, output)
    ELSE LET transaction == Head(transactions)
         IN  IF Skipped(transaction, opts)
             THEN WriteTransactionRows(itemConfig, output, Tail(transactions), opts, count)
             ELSE IF transaction.AccountID \notin DOMAIN itemConfig.Transactions
             THEN Written(<<"unknown account:", transaction.AccountID>>, count, output)
             ELSE WriteTransactionRows(
                      itemConfig,
                      Write(output, TransactionRow(itemConfig, transaction, opts)),
                      Tail(transactions), opts, count + 1)

\* lines 312-350: the loop over item.Investments, cash and fee records only
RECURSIVE WriteCashRows(_, _, _, _, _, _)
WriteCashRows(itemConfig, output, securities, investments, opts, count) ==
    IF investments = <<>> THEN Written(<<>>, count, output)
    ELSE LET transaction == Head(investments)
         IN  IF transaction.Type # "cash" /\ transaction.Type # "fee"
             THEN WriteCashRows(itemConfig, output, securities, Tail(investments), opts, count)
             ELSE IF transaction.Subtype = "stock distribution"
             THEN WriteCashRows(itemConfig, output, securities, Tail(investments), opts, count)
             ELSE IF transaction.SecurityID \notin DOMAIN securities
             THEN Written(<<"unknown security:", transaction.SecurityID>>, count, output)
             ELSE IF transaction.AccountID \notin DOMAIN itemConfig.Investments
             THEN Written(<<"unknown account:", transaction.AccountID>>, count, output)
             ELSE WriteCashRows(
                      itemConfig,
                      Write(output, CashRow(itemConfig, securities, transaction, opts)),
                      securities, Tail(investments), opts, count + 1)

\* WriteTransactions, lines 272-358: both loops, then the flush
WriteTransactions(itemConfig, output, bundle, opts) ==
    LET first == WriteTransactionRows(itemConfig, output, bundle.Transactions, opts, 0)
        second == WriteCashRows(itemConfig, first.output, bundle.Securities,
                                bundle.Investments, opts, first.count)
    IN  IF first.err # <<>> THEN first
        ELSE IF second.err # <<>> THEN second
        ELSE Written(<<>>, second.count, Flush(second.output))

\* lines 362-406: the loop over item.Investments, security records only
RECURSIVE WriteInvestmentRows(_, _, _, _, _, _)
WriteInvestmentRows(itemConfig, output, securities, investments, opts, count) ==
    IF investments = <<>> THEN Written(<<>>, count, output)
    ELSE LET transaction == Head(investments)
         IN  IF transaction.Type = "cash" \/ transaction.Type = "fee"
             THEN WriteInvestmentRows(itemConfig, output, securities, Tail(investments),
                                      opts, count)
             ELSE IF transaction.SecurityID \notin DOMAIN securities
             THEN Written(<<"unknown security:", transaction.SecurityID>>, count, output)
             ELSE IF transaction.AccountID \notin DOMAIN itemConfig.Investments
             THEN Written(<<"unknown account:", transaction.AccountID>>, count, output)
             ELSE WriteInvestmentRows(
                      itemConfig,
                      Write(output, InvestmentRow(itemConfig, securities, transaction, opts)),
                      securities, Tail(investments), opts, count + 1)

\* lines 367-381 passing over a record that does not resolve
WriteInvestments_SkipUnresolved(itemConfig, output, bundle, opts) ==
    LET resolved == SelectSeq(bundle.Investments,
                              LAMBDA v : /\ v.SecurityID \in DOMAIN bundle.Securities
                                         /\ v.AccountID \in DOMAIN itemConfig.Investments)
        rows == WriteInvestmentRows(itemConfig, output, bundle.Securities, resolved, opts, 0)
    IN  Written(<<>>, rows.count, Flush(rows.output))

\* WriteInvestments, lines 360-414: the loop, then the flush
WriteInvestments(itemConfig, output, bundle, opts) ==
    LET rows == WriteInvestmentRows(itemConfig, output, bundle.Securities,
                                    bundle.Investments, opts, 0)
    IN  IF rows.err # <<>> THEN rows
        ELSE Written(<<>>, rows.count, Flush(rows.output))

(***************************************************************************)
(* run: the export loop as a state machine, lines 134-248                  *)
(***************************************************************************)
\* the state of RequestActivity, which the export loop never touches
activityVars == <<refreshThreshold, remaining, itemID, res, items, transactionsRes,
                  transactionsTotal, investmentsRes, investmentsTotal, calls, provider>>

\* the flags are read and both dates parsed (lines 84-94); the output files
\* are empty
RunInit ==
    /\ config = ExportConfig
    /\ \E r \in DateRanges : start = r.start /\ endDate = r.end
    /\ end = endDate
    /\ inclusiveEndDate \in BOOLEAN
    /\ clampSemimonthly \in BOOLEAN
    /\ sortOutput \in BOOLEAN
    /\ options \in { WriteOptions(omitPending) : omitPending \in BOOLEAN }
    /\ activity = <<>>
    /\ request = <<>>
    /\ clampEndDate = ZeroTime
    /\ transactionsOutput = NewWriter
    /\ investmentsOutput = NewWriter
    /\ pc = "inclusive"
    /\ item = NewItemData("")
    /\ ret = NotReturned
    /\ refreshThreshold = RefreshThresholdLimit
    /\ remaining = {}
    /\ itemID = ""
    /\ res = NoStatus
    /\ items = <<>>
    /\ transactionsRes = NoResponse
    /\ transactionsTotal = 0
    /\ investmentsRes = NoResponse
    /\ investmentsTotal = 0
    /\ calls = <<>>
    /\ provider = <<>>

\* lines 96-99: the end date is moved one day on under --inclusive-end-date
InclusiveEndDate ==
    /\ pc = "inclusive"
    /\ end' = IF inclusiveEndDate THEN AddDate(end, 0, 0, 1) ELSE end
    /\ pc' = "request"
    /\ UNCHANGED <<activityVars, endDate, inclusiveEndDate, request, config, item, ret, start,
                   clampSemimonthly, clampEndDate, sortOutput, options, activity,
                   transactionsOutput, investmentsOutput>>

\* lines 129-170: RequestActivity is called with start and end, which its
\* page requests carry as dates (plaid.go lines 278-279, 341-342); on its
\* error run returns, else both writers get their header row
RequestActivity ==
    /\ pc = "request"
    /\ request' = [StartDate |-> DateOnly(start), EndDate |-> DateOnly(end)]
    /\ \/ /\ \E bundles \in Activities : activity' = bundles
          /\ transactionsOutput' = Write(transactionsOutput, TransactionsHeaders)
          /\ investmentsOutput' = Write(investmentsOutput, InvestmentsHeaders)
          /\ pc' = "export"
          /\ UNCHANGED ret
       \/ /\ \E kind \in FailureKinds :
                ret' = ErrorReturn(Errorf(<<"request activity from plaid:">>,
                                          RequestFailure(kind)))
          /\ pc' = "exported"
          /\ UNCHANGED <<activity, transactionsOutput, investmentsOutput>>
    /\ UNCHANGED <<activityVars, endDate, inclusiveEndDate, config, item, start, end,
                   clampSemimonthly, clampEndDate, sortOutput, options>>

\* lines 188-193: the loop takes the next bundle; one of an item the
\* configuration does not name is skipped with a warning
RangeActivity ==
    /\ pc = "export"
    /\ activity # <<>>
    /\ item' = Head(activity)
    /\ activity' = Tail(activity)
    /\ pc' = IF Head(activity).ID \in DOMAIN config THEN "clamp" ELSE "export"
    /\ UNCHANGED <<activityVars, endDate, inclusiveEndDate, request, config, ret, start, end, clampSemimonthly, clampEndDate,
                   sortOutput, options, transactionsOutput, investmentsOutput>>

\* lines 194-226: the semimonthly clamp of both lists
ClampSemimonthly ==
    /\ pc = "clamp"
    /\ IF clampSemimonthly
       THEN /\ clampEndDate' = ClampEndDate(end)
            /\ item' = [item EXCEPT
                          !.Transactions = ClampTransactions(@, start, ClampEndDate(end)),
                          !.Investments = ClampInvestments(@, start, ClampEndDate(end))]
       ELSE UNCHANGED <<clampEndDate, item>>
    /\ pc' = "sort"
    /\ UNCHANGED <<activityVars, endDate, inclusiveEndDate, request, config, ret, start, end, clampSemimonthly, sortOutput,
                   options, activity, transactionsOutput, investmentsOutput>>

\* lines 228-235: both lists sorted by date
SortOutput ==
    /\ pc = "sort"
    /\ IF sortOutput
       THEN \E transactions \in SortSlice(item.Transactions),
               investments \in SortSlice(item.Investments) :
                item' = [item EXCEPT !.Transactions = transactions,
                                     !.Investments = investments]
       ELSE UNCHANGED item
    /\ pc' = "writeTransactions"
    /\ UNCHANGED <<activityVars, endDate, inclusiveEndDate, request, config, ret, start, end, clampSemimonthly, clampEndDate,
                   sortOutput, options, activity, transactionsOutput, investmentsOutput>>

\* lines 237-240: WriteTransactions, and the return on its error
ExportTransactions ==
    /\ pc = "writeTransactions"
    /\ LET w == WriteTransactions(config[item.ID], transactionsOutput, item, options)
       IN  /\ transactionsOutput' = w.output
           /\ IF w.err # <<>>
              THEN /\ ret' = ErrorReturn(Errorf(<<"write transactions for",
                                                  config[item.ID].Name, "to output:">>,
                                                w.err))
                   /\ pc' = "exported"
              ELSE /\ pc' = "writeInvestments"
                   /\ UNCHANGED ret
    /\ UNCHANGED <<activityVars, endDate, inclusiveEndDate, request, config, item, start, end, clampSemimonthly, clampEndDate,
                   sortOutput, options, activity, investmentsOutput>>

\* lines 242-245: WriteInvestments, and the return on its error
ExportInvestments ==
    /\ pc = "writeInvestments"
    /\ LET w == WriteInvestments(config[item.ID], investmentsOutput, item, options)
       IN  /\ investmentsOutput' = w.output
           /\ IF w.err # <<>>
              THEN /\ ret' = ErrorReturn(Errorf(<<"write investments for",
                                                  config[item.ID].Name, "to output:">>,
                                                w.err))
                   /\ pc' = "exported"
              ELSE /\ pc' = "export"
                   /\ UNCHANGED ret
    /\ UNCHANGED <<activityVars, endDate, inclusiveEndDate, request, config, item, start, end, clampSemimonthly, clampEndDate,
                   sortOutput, options, activity, transactionsOutput>>

\* line 248: every bundle is written, run returns nil
RunReturn ==
    /\ pc = "export"
    /\ activity = <<>>
    /\ ret' = [returned |-> TRUE, items |-> <<>>, err |-> <<>>]
    /\ pc' = "exported"
    /\ UNCHANGED <<activityVars, endDate, inclusiveEndDate, request, config, item, start, end, clampSemimonthly, clampEndDate,
                   sortOutput, options, activity, transactionsOutput, investmentsOutput>>

RunNext ==
    \/ InclusiveEndDate
    \/ RequestActivity
    \/ RangeActivity
    \/ ClampSemimonthly
    \/ SortOutput
    \/ ExportTransactions
    \/ ExportInvestments
    \/ RunReturn

RunSpec == RunInit /\ [][RunNext]_vars


(***************************************************************************)
(* Vocabulary of the properties                                            *)
(***************************************************************************)
Range(seq) == { seq[k] : k \in DOMAIN seq }

PageEndpoints == {transactionsEndpoint, investmentsEndpoint}

RefreshEndpoints == {transactionsRefreshEndpoint, investmentsRefreshEndpoint}

\* the record lists of a list of calls, joined in call order
RECURSIVE ConcatRecords(_)
ConcatRecords(log) ==
    IF log = <<>> THEN <<>> ELSE Head(log).Records \o ConcatRecords(Tail(log))

\* the number of records returned by the calls before call k on its item and endpoint
ReceivedBefore(k) ==
    Len(ConcatRecords(CallsOf(SubSeq(calls, 1, k - 1), calls[k].item, calls[k].endpoint)))

\* a call was made for the item on the endpoint
Issued(id, endpoint) == CallsOf(calls, id, endpoint) # <<>>

\* a page call that came back decoded, with status 200 and no embedded error
PageSucceeded(c) == c.kind = "ok" /\ c.Error.Type = ""

\* the range loop has started the item and is past its item/get call
StatusFetched(id) == id \notin remaining /\ ~(id = itemID /\ pc = "checkRefresh")

\* the position of the page loop of an endpoint
LoopPc(endpoint) ==
    IF endpoint = transactionsEndpoint THEN "transactionsLoop" ELSE "investmentsLoop"

\* the account set configured for an endpoint's stream
AccountsOf(id, endpoint) ==
    IF endpoint = transactionsEndpoint THEN config[id].Transactions
    ELSE config[id].Investments

\* the ItemData that exist: the finished ones, the one in work, the returned ones
Bundles ==
    Range(items) \cup Range(ret.items) \cup
    (IF pc \in {"transactions", "transactionsLoop", "investments", "investmentsLoop", "append"}
     THEN {item} ELSE {})

Succeeded == pc = "done" /\ ret.returned /\ ret.err = <<>>

(***************************************************************************)
(* C1: every follow-up page request carries an offset equal to the number  *)
(* of records received so far for that item and stream (the sum of the     *)
(* lengths of the pages already returned).  The code sends the sum of the  *)
(* reported totals instead, so this fails.                                 *)
(***************************************************************************)
C1_OffsetIsRecordsReceived ==
    \A k \in DOMAIN calls :
        calls[k].endpoint \in PageEndpoints => calls[k].offset = ReceivedBefore(k)

(***************************************************************************)
(* C2: for an item and stream with a non-empty account set the first page  *)
(* request uses offset 0, and after a page response another page request   *)
(* follows if and only if the total it reported is >= 500: every call that *)
(* is followed by another one reported >= 500, a page that reported >= 500 *)
(* keeps the program in that stream's loop, whose next step is the next    *)
(* page request, and a page that reported less (120, 499) ends the loop.   *)
(***************************************************************************)
C2_State ==
    \A id \in DOMAIN config : \A e \in PageEndpoints :
        LET s == CallsOf(calls, id, e)
        IN  /\ s # <<>> => /\ s[1].offset = 0
                           /\ AccountsOf(id, e) # {}
            /\ \A k \in 1..(Len(s) - 1) :
                   PageSucceeded(s[k]) /\ s[k].Total >= maxTransactionCount
            /\ (s # <<>> /\ PageSucceeded(s[Len(s)])
                         /\ s[Len(s)].Total >= maxTransactionCount)
                   => (itemID = id /\ pc = LoopPc(e))

C2_Step ==
    \A e \in PageEndpoints :
        LET last == IF e = transactionsEndpoint THEN transactionsRes ELSE investmentsRes
        IN  pc = LoopPc(e) =>
              IF last.Total >= maxTransactionCount
              THEN /\ Len(calls') = Len(calls) + 1
                   /\ calls'[Len(calls')].item = itemID
                   /\ calls'[Len(calls')].endpoint = e
              ELSE calls' = calls /\ pc' # LoopPc(e)

\* C2: the offset-0 first request and the continuation rule hold in every state
\* (C2_State) and every step taken at a loop head follows the rule (C2_Step)
C2_NextPageIffTotalAtLeastPageSize == []C2_State /\ [][C2_Step]_vars

C2_Witness ==
    /\ Succeeded
    /\ \E id \in DOMAIN config :
         LET s == CallsOf(calls, id, transactionsEndpoint)
         IN  Len(s) = 2 /\ s[1].Total = 500 /\ s[2].Total = 120

(***************************************************************************)
(* C3: once checkRefresh has taken the transactions decision, a            *)
(* transactions refresh was requested for the item if and only if the      *)
(* transactions stream's own last-successful-update is non-zero and at     *)
(* least the threshold old.  The code tests the investments timestamp for  *)
(* zero instead, so this fails.                                            *)
(***************************************************************************)
C3_TransactionsRefreshOwnTimestamp ==
    pc \in {"investmentsAge", "refreshed"} =>
        (Issued(itemID, transactionsRefreshEndpoint)
            <=> (res.Transactions # 0
                   /\ Sub(Now, res.Transactions) >= refreshThreshold))

(***************************************************************************)
(* C4: once checkRefresh has taken the investments decision (the status    *)
(* call and any transactions refresh succeeded), an investments refresh    *)
(* was requested for the item if and only if the investments stream's      *)
(* last-successful-update is non-zero and at least the threshold old,      *)
(* whatever the transactions timestamp and whether or not a transactions   *)
(* refresh was requested.                                                  *)
(***************************************************************************)
C4_InvestmentsRefreshOwnTimestamp ==
    LET due == res.Investments # 0 /\ Sub(Now, res.Investments) >= refreshThreshold
        decided == \/ pc = "refreshed"
                   \/ /\ pc = "done"
                      /\ calls # <<>>
                      /\ calls[Len(calls)].endpoint = investmentsRefreshEndpoint
                      /\ calls[Len(calls)].kind # "ok"
    IN  decided => /\ Issued(itemID, investmentsRefreshEndpoint) <=> due
                   /\ Len(CallsOf(calls, itemID, investmentsRefreshEndpoint)) <= 1

C4_Witness ==
    /\ pc = "refreshed"
    /\ res.Transactions = Now - 23
    /\ res.Investments = Now - 24
    /\ Issued(itemID, investmentsRefreshEndpoint)
    /\ ~Issued(itemID, transactionsRefreshEndpoint)

(***************************************************************************)
(* C5: with a threshold at or above RefreshThresholdLimit no item-status   *)
(* and no refresh request is ever made; with a threshold below it exactly  *)
(* one item-status request is made for every item the loop has started,    *)
(* and none for the others.                                                *)
(***************************************************************************)
C5_StatusCheckOnlyBelowLimit ==
    /\ refreshThreshold >= RefreshThresholdLimit =>
          \A k \in DOMAIN calls :
              calls[k].endpoint \notin {itemGetEndpoint} \cup RefreshEndpoints
    /\ refreshThreshold < RefreshThresholdLimit =>
          \A id \in DOMAIN config :
              Len(CallsOf(calls, id, itemGetEndpoint)) = IF StatusFetched(id) THEN 1 ELSE 0

C5_Witness ==
    /\ Succeeded
    /\ refreshThreshold < RefreshThresholdLimit
    /\ Cardinality(DOMAIN config) = 2
    /\ \A id \in DOMAIN config : Len(CallsOf(calls, id, itemGetEndpoint)) = 1

(***************************************************************************)
(* C6: a failed item-status or refresh request is the last remote call of  *)
(* the run: RequestActivity has returned an error and no ItemData at all   *)
(* (not even those finished before), and no page was fetched for the item. *)
(***************************************************************************)
C6_RefreshFailureAbortsRun ==
    \A k \in DOMAIN calls :
        (calls[k].endpoint \in {itemGetEndpoint} \cup RefreshEndpoints /\ calls[k].kind # "ok")
            => /\ k = Len(calls)
               /\ pc = "done"
               /\ ret.returned
               /\ ret.err # <<>>
               /\ ret.items = <<>>
               /\ \A e \in PageEndpoints : ~Issued(calls[k].item, e)

C6_Witness ==
    /\ pc = "done"
    /\ calls # <<>>
    /\ calls[Len(calls)].endpoint = investmentsRefreshEndpoint
    /\ calls[Len(calls)].kind = "400"
    /\ Len(items) = 1
    /\ items[1].Transactions # <<>>
    /\ ret.items = <<>>

(***************************************************************************)
(* C7: for an item whose account set for a stream is empty no page of that *)
(* stream is ever requested and every ItemData of the item has an empty    *)
(* record list for it; every configured item, one with both sets empty     *)
(* included, has its ItemData in a successful result.                      *)
(***************************************************************************)
C7_EmptyAccountSetNotRequested ==
    \A id \in DOMAIN config :
        /\ \A e \in PageEndpoints : AccountsOf(id, e) = {} => ~Issued(id, e)
        /\ \A b \in Bundles :
              b.ID = id => /\ config[id].Transactions = {} => b.Transactions = <<>>
                           /\ config[id].Investments = {} => b.Investments = <<>>
        /\ Succeeded => \E k \in DOMAIN ret.items : ret.items[k].ID = id

C7_Witness ==
    /\ Succeeded
    /\ config["item1"] = NoItemConfig
    /\ ret.items = <<NewItemData("item1")>>
    /\ \A k \in DOMAIN calls : calls[k].endpoint \notin PageEndpoints

(***************************************************************************)
(* C8: a page response decoded from a 200 status whose embedded error type *)
(* is non-empty is the last remote call of the run: RequestActivity has    *)
(* returned an error and no ItemData, and the item's record list holds the *)
(* records of the earlier pages only, none of that page's.                 *)
(***************************************************************************)
C8_EmbeddedErrorIsFailure ==
    \A k \in DOMAIN calls :
        (calls[k].endpoint \in PageEndpoints /\ calls[k].kind = "ok" /\ calls[k].Error.Type # "")
            => /\ k = Len(calls)
               /\ pc = "done"
               /\ ret.returned
               /\ ret.err # <<>>
               /\ ret.items = <<>>
               /\ item.ID = calls[k].item
               /\ (IF calls[k].endpoint = transactionsEndpoint
                   THEN item.Transactions ELSE item.Investments)
                    = ConcatRecords(CallsOf(SubSeq(calls, 1, k - 1),
                                            calls[k].item, calls[k].endpoint))

C8_Witness ==
    /\ pc = "done"
    /\ calls # <<>>
    /\ LET c == calls[Len(calls)]
       IN  /\ c.endpoint = investmentsEndpoint
           /\ c.kind = "ok"
           /\ c.Error.Type # ""
           /\ c.Records # <<>>
           /\ c.offset > 0
           /\ item.Investments = <<"v1">>

\* the run ended on a page response that carried an embedded provider error
EndedOnProviderError ==
    /\ pc = "done"
    /\ calls # <<>>
    /\ calls[Len(calls)].endpoint \in PageEndpoints
    /\ calls[Len(calls)].kind = "ok"
    /\ calls[Len(calls)].Error.Type # ""

(***************************************************************************)
(* C9, as claimed: the error returned for an embedded provider error       *)
(* contains all four provider fields: type, code, message and display      *)
(* message.                                                                *)
(***************************************************************************)
C9_AllFourFieldsPreserved ==
    EndedOnProviderError =>
        LET e == calls[Len(calls)].Error
        IN  {e.Type, e.Code, e.Message, e.Display} \subseteq Range(ret.err)

(***************************************************************************)
(* C9, amended: the error returned for an embedded provider error contains *)
(* the provider's error type, error code and error message, and not its    *)
(* display message.                                                        *)
(***************************************************************************)
C9_TypeCodeMessagePreserved ==
    EndedOnProviderError =>
        LET e == calls[Len(calls)].Error
        IN  /\ {e.Type, e.Code, e.Message} \subseteq Range(ret.err)
            /\ e.Display \notin Range(ret.err)

C9_Witness ==
    /\ EndedOnProviderError
    /\ calls[Len(calls)].Error = ProviderError
    /\ calls[Len(calls)].endpoint = transactionsEndpoint

(***************************************************************************)
(* C10: the transaction list and the investment list of every finished     *)
(* ItemData, and of every ItemData of a successful result, are the record  *)
(* lists of all pages returned for the item and stream, joined in request  *)
(* order with nothing changed or removed, repeated records included.       *)
(***************************************************************************)
C10_ListsAreConcatenatedPages ==
    /\ \A b \in Range(items) \cup Range(ret.items) :
          /\ b.Transactions = ConcatRecords(CallsOf(calls, b.ID, transactionsEndpoint))
          /\ b.Investments = ConcatRecords(CallsOf(calls, b.ID, investmentsEndpoint))
    /\ Succeeded => ret.items = items

C10_Witness ==
    /\ Succeeded
    /\ \E k \in DOMAIN ret.items :
          /\ ret.items[k].Transactions = <<"t1", "t2", "t1">>
          /\ Len(CallsOf(calls, ret.items[k].ID, transactionsEndpoint)) = 2

\* the security lists of a list of calls, joined in call order
RECURSIVE ConcatSecurities(_)
ConcatSecurities(log) ==
    IF log = <<>> THEN <<>> ELSE Head(log).Securities \o ConcatSecurities(Tail(log))

(***************************************************************************)
(* C11: the security mapping of every finished or returned ItemData holds  *)
(* exactly the security IDs carried by the investment pages of that item   *)
(* (so none of another item's), and for each ID the metadata of its last   *)
(* occurrence in page order.                                               *)
(***************************************************************************)
C11_SecuritiesAreLastSeenPerItem ==
    \A b \in Range(items) \cup Range(ret.items) :
        LET secs == ConcatSecurities(CallsOf(calls, b.ID, investmentsEndpoint))
        IN  /\ DOMAIN b.Securities = { secs[k].ID : k \in DOMAIN secs }
            /\ \A k \in DOMAIN secs :
                  (\A j \in (k + 1)..Len(secs) : secs[j].ID # secs[k].ID)
                      => b.Securities[secs[k].ID] = secs[k]

C11_Witness ==
    /\ Succeeded
    /\ Len(ret.items) = 2
    /\ \E k \in DOMAIN ret.items :
          LET b == ret.items[k]
              log == CallsOf(calls, b.ID, investmentsEndpoint)
          IN  /\ Len(log) = 2
              /\ log[1].Securities = <<SecurityB, SecurityC>>
              /\ log[2].Securities = <<SecurityA>>
              /\ b.Securities["s1"] = SecurityA
              /\ b.Securities["s2"] = SecurityC
    /\ \E k \in DOMAIN ret.items : DOMAIN ret.items[k].Securities = {}

(***************************************************************************)
(* Vocabulary of the export claims                                         *)
(***************************************************************************)
\* the IDs of a list of records, in order
Ids(list) == [k \in DOMAIN list |-> list[k].ID]

\* instant a is strictly before instant b
Earlier(a, b) ==
    \/ a.day < b.day
    \/ a.day = b.day /\ (a.sec < b.sec \/ (a.sec = b.sec /\ a.nsec < b.nsec))

\* instant d lies in the closed interval [lo, hi]
Within(d, lo, hi) == ~Earlier(d, lo) /\ ~Earlier(hi, d)

\* the date a transaction is clamped by
EffectiveDate(t) == IF t.AuthorizedDate # ZeroTime THEN t.AuthorizedDate ELSE t.Date

\* the last nanosecond of a calendar day
EndOfDay(year, month, day) ==
    [day |-> ParseDate(year, month, day).day, sec |-> 86399, nsec |-> 999999999]

\* the last nanosecond of the month before the month of a calendar date
EndOfPreviousMonth(c) ==
    IF c.month = 1 THEN EndOfDay(c.year - 1, 12, 31)
    ELSE EndOfDay(c.year, c.month - 1, daysIn(c.month - 1, c.year))

\* the bundle of the current loop round has been clamped
Clamped == clampSemimonthly /\ pc \in {"sort", "writeTransactions", "writeInvestments"}

(***************************************************************************)
(* C12: with semimonthly clamping on, the clamp step keeps exactly the     *)
(* transactions whose effective date (authorized date when non-zero, else  *)
(* post date) lies in [start, boundary] and exactly the investment records *)
(* whose date lies in it, in their order, and changes nothing else of the  *)
(* bundle or of the run.                                                   *)
(***************************************************************************)
C12_Step ==
    pc = "clamp" /\ clampSemimonthly =>
        /\ item'.Transactions =
              SelectSeq(item.Transactions,
                        LAMBDA t : Within(EffectiveDate(t), start, clampEndDate'))
        /\ item'.Investments =
              SelectSeq(item.Investments, LAMBDA v : Within(v.Date, start, clampEndDate'))
        /\ item'.ID = item.ID
        /\ item'.Securities = item.Securities
        /\ DOMAIN item' = DOMAIN item
        /\ UNCHANGED <<start, end, options, activity, transactionsOutput,
                       investmentsOutput, ret>>

C12_ClampKeepsEffectiveDateInRange == [][C12_Step]_vars

C12_Witness ==
    /\ Clamped
    /\ pc = "sort"
    /\ start = ParseDate(2024, 2, 1)
    /\ end = ParseDate(2024, 3, 14)
    /\ Ids(item.Transactions) = <<"d3", "d6", "d11">>
    /\ Ids(item.Investments) = <<"i2", "i6">>

(***************************************************************************)
(* C13: the clamp boundary is the last instant of the month before the end *)
(* date's month when the end date's day is below 15, and the last instant  *)
(* of the 15th of the end date's month otherwise: 2024-03-10 gives         *)
(* 2024-02-29 23:59:59.999999999, 2024-03-20 gives 2024-03-15              *)
(* 23:59:59.999999999, and a January end date gives the 31st of December   *)
(* of the year before.                                                     *)
(***************************************************************************)
C13_BoundaryIsHalfMonthEnd ==
    Clamped =>
        /\ clampEndDate = IF Civil(end).day < 15
                          THEN EndOfPreviousMonth(Civil(end))
                          ELSE EndOfDay(Civil(end).year, Civil(end).month, 15)
        /\ end = ParseDate(2024, 3, 10) => clampEndDate = EndOfDay(2024, 2, 29)
        /\ end = ParseDate(2024, 3, 20) => clampEndDate = EndOfDay(2024, 3, 15)
        /\ end = ParseDate(2024, 1, 5) => clampEndDate = EndOfDay(2023, 12, 31)

C13_Witness ==
    /\ Clamped
    /\ end = ParseDate(2024, 1, 5)
    /\ clampEndDate = EndOfDay(2023, 12, 31)
    /\ Ids(item.Transactions) = <<"d9">>

(***************************************************************************)
(* C14 as claimed: with clamping on and an end date whose day is below 15  *)
(* (2024-03-10), a transaction with zero authorized date dated in the end  *)
(* date's month on or before the end date (2024-03-05) is retained, and    *)
(* one dated after the end date (2024-03-12) is excluded.                  *)
(***************************************************************************)
C14_Claimed_Step ==
    pc = "clamp" /\ clampSemimonthly /\ Civil(end).day < 15 =>
        \A k \in DOMAIN item.Transactions :
            LET t == item.Transactions[k]
            IN  t.AuthorizedDate = ZeroTime /\ Civil(t.Date).month = Civil(end).month
                    /\ Civil(t.Date).year = Civil(end).year =>
                    /\ Within(t.Date, start, end) => t \in Range(item'.Transactions)
                    /\ Earlier(end, t.Date) => t \notin Range(item'.Transactions)

C14_SameMonthBeforeEndRetained == [][C14_Claimed_Step]_vars

(***************************************************************************)
(* C14 as the program behaves: with clamping on and an end date whose day  *)
(* is below 15, every transaction with zero authorized date dated in the   *)
(* end date's month is excluded (for end 2024-03-10 both 2024-03-05 and    *)
(* 2024-03-12), and one dated from the start date to the last day of the   *)
(* month before is retained.                                               *)
(***************************************************************************)
C14_Step ==
    pc = "clamp" /\ clampSemimonthly /\ Civil(end).day < 15 =>
        \A k \in DOMAIN item.Transactions :
            LET t == item.Transactions[k]
            IN  t.AuthorizedDate = ZeroTime =>
                    /\ Civil(t.Date).month = Civil(end).month
                           /\ Civil(t.Date).year = Civil(end).year
                           => t \notin Range(item'.Transactions)
                    /\ Within(t.Date, start, EndOfPreviousMonth(Civil(end)))
                           => t \in Range(item'.Transactions)

C14_EndMonthExcludedWhenDayBelow15 == [][C14_Step]_vars

C14_Witness ==
    /\ Clamped
    /\ pc = "sort"
    /\ end = ParseDate(2024, 3, 10)
    /\ start = ParseDate(2024, 2, 1)
    /\ "d3" \in Range(Ids(item.Transactions))
    /\ "d1" \notin Range(Ids(item.Transactions))
    /\ "d2" \notin Range(Ids(item.Transactions))
    /\ Ids(item.Investments) = <<"i2", "i6">>

\* no record of the list is dated before the record in front of it
Ascending(list) == \A k \in 2..Len(list) : ~Earlier(list[k].Date, list[k - 1].Date)

\* the place of a record in a list that holds it once
Place(list, r) == CHOOSE k \in DOMAIN list : list[k] = r

\* after holds the records of before, and two of the same date in the order
\* before had them
StablyReordered(before, after) ==
    /\ Len(after) = Len(before)
    /\ Range(after) = Range(before)
    /\ \A i, j \in DOMAIN before :
          i < j /\ before[i].Date = before[j].Date
              => Place(after, before[i]) < Place(after, before[j])

\* a list without its pending transactions, as WriteTransactions drops them
DropPending(list) == SelectSeq(list, LAMBDA t : ~Skipped(t, WriteOptions(TRUE)))

(***************************************************************************)
(* C15: with sorting on, the sort step leaves the transaction list and the *)
(* investment list in ascending date order, with records of the same date  *)
(* in the order they had before (a stable sort).                           *)
(***************************************************************************)
C15_Step ==
    pc = "sort" /\ sortOutput =>
        /\ Ascending(item'.Transactions)
        /\ StablyReordered(item.Transactions, item'.Transactions)
        /\ Ascending(item'.Investments)
        /\ StablyReordered(item.Investments, item'.Investments)

C15_SortIsAscendingAndStable == [][C15_Step]_vars

(***************************************************************************)
(* C16: sorting is idempotent: the list the sort step leaves is the only   *)
(* result of sorting it again.                                             *)
(***************************************************************************)
C16_Step ==
    pc = "sort" /\ sortOutput =>
        /\ SortSlice(item'.Transactions) = { item'.Transactions }
        /\ Ascending(item'.Transactions)

C16_SortIsIdempotent == [][C16_Step]_vars

C16_Witness ==
    /\ pc = "writeTransactions"
    /\ sortOutput
    /\ ~clampSemimonthly
    /\ Len(item.Transactions) > maxInsertion
    /\ Ids(item.Transactions)[1] = "l13"
    /\ Ids(item.Transactions)[2] = "l12"

(***************************************************************************)
(* C17: pending omission commutes with sorting: dropping the pending       *)
(* transactions of the list the sort step leaves gives the one result of   *)
(* sorting the list the step found with its pending transactions dropped.  *)
(***************************************************************************)
C17_Step ==
    pc = "sort" /\ sortOutput =>
        SortSlice(DropPending(item.Transactions)) = { DropPending(item'.Transactions) }

C17_PendingOmissionCommutesWithSort == [][C17_Step]_vars

\* every row a csv.Writer has taken, written to the file or still buffered
AllRows(output) == output.file \o output.buffer

\* the rows a step added to a csv.Writer
NewRows(before, after) ==
    SubSeq(AllRows(after), Len(AllRows(before)) + 1, Len(AllRows(after)))

\* the investment records WriteTransactions renders as transaction rows
CashLike(investments) ==
    SelectSeq(investments,
              LAMBDA v : v.Type \in {"cash", "fee"} /\ v.Subtype # "stock distribution")

\* the transaction-schema rows of a bundle's cash-like investment records
CashRowsOf(bundle, opts) ==
    [k \in DOMAIN CashLike(bundle.Investments) |->
        CashRow(config[bundle.ID], bundle.Securities, CashLike(bundle.Investments)[k], opts)]

(***************************************************************************)
(* C18: a WriteTransactions that succeeds has added to the transactions    *)
(* file, in bundle order, the rows of the non-pending transactions when    *)
(* pending omission is on and the rows of all transactions when it is off, *)
(* followed by the rows of the cash-like investment records, which are the *)
(* same rows whether pending omission is on or off.                        *)
(***************************************************************************)
C18_Step ==
    pc = "writeTransactions" /\ pc' = "writeInvestments" =>
        LET selected == IF options.OmitPending
                        THEN SelectSeq(item.Transactions, LAMBDA t : ~t.Pending)
                        ELSE item.Transactions
            rows == [k \in DOMAIN selected |->
                        TransactionRow(config[item.ID], selected[k], options)]
        IN  /\ NewRows(transactionsOutput, transactionsOutput') =
                  rows \o CashRowsOf(item, WriteOptions(TRUE))
            /\ CashRowsOf(item, WriteOptions(TRUE)) = CashRowsOf(item, WriteOptions(FALSE))
            /\ transactionsOutput'.file = AllRows(transactionsOutput')

C18_PendingOmissionDropsOnlyPendingTransactions == [][C18_Step]_vars

C18_Witness ==
    /\ pc = "writeInvestments"
    /\ options.OmitPending
    /\ ~clampSemimonthly
    /\ ~sortOutput
    /\ Ids(item.Transactions) = <<"w1", "w2", "w3", "w4">>
    /\ [k \in DOMAIN transactionsOutput.file |-> transactionsOutput.file[k][10]] =
          <<"Transaction ID", "w1", "w3", "v2", "v3", "v6">>

\* the transaction of the current bundle a row was written for
RowsOfTransactions(rows) ==
    { <<row, t>> \in Range(rows) \X Range(item.Transactions) : row[10] = t.ID }

(***************************************************************************)
(* C19 as claimed: the payee of a transaction row is the merchant name     *)
(* whenever that is non-empty, and the transaction name only when the      *)
(* merchant name is empty.                                                 *)
(***************************************************************************)
C19_Claimed_Step ==
    pc = "writeTransactions" =>
        \A p \in RowsOfTransactions(NewRows(transactionsOutput, transactionsOutput')) :
            p[1][6] = IF p[2].MerchantName # "" THEN p[2].MerchantName ELSE p[2].Name

C19_PayeePrefersMerchantName == [][C19_Claimed_Step]_vars

(***************************************************************************)
(* C19 as the program behaves: the payee of a transaction row is the       *)
(* transaction name whenever that is non-empty, and the merchant name only *)
(* when the transaction name is empty.                                     *)
(***************************************************************************)
C19_Step ==
    pc = "writeTransactions" =>
        \A p \in RowsOfTransactions(NewRows(transactionsOutput, transactionsOutput')) :
            p[1][6] = IF p[2].Name # "" THEN p[2].Name ELSE p[2].MerchantName

C19_PayeePrefersTransactionName == [][C19_Step]_vars

C19_Witness ==
    /\ pc = "writeInvestments"
    /\ \E row \in Range(transactionsOutput.file) : row[10] = "w1" /\ row[6] = "Cafe"
    /\ \E row \in Range(transactionsOutput.file) : row[10] = "w2" /\ row[6] = "Cafe Inc"
    /\ \E row \in Range(transactionsOutput.file) : row[10] = "w4" /\ row[6] = ""

\* the rows a write step added, each with the record of the current bundle
\* it was written for and the column that holds its currency
RowsWithCurrency ==
    { <<row[8], r>> : <<row, r>> \in
         { <<row, r>> \in Range(NewRows(transactionsOutput, transactionsOutput'))
                          \X (Range(item.Transactions) \cup Range(item.Investments)) :
              row[10] = r.ID } }
    \cup
    { <<row[10], r>> : <<row, r>> \in
         { <<row, r>> \in Range(NewRows(investmentsOutput, investmentsOutput'))
                          \X Range(item.Investments) : row[8] = r.ID } }

(***************************************************************************)
(* C20 as claimed: the currency of every exported row (transaction rows,   *)
(* cash-like investment rows, investment rows) is the ISO code whenever    *)
(* that is non-empty, and the unofficial code only when the ISO code is    *)
(* empty.                                                                  *)
(***************************************************************************)
C20_Claimed_Step ==
    pc \in {"writeTransactions", "writeInvestments"} =>
        \A p \in RowsWithCurrency :
            p[1] = IF p[2].ISOCurrency # "" THEN p[2].ISOCurrency
                   ELSE p[2].UnofficialCurrency

C20_CurrencyPrefersISOCode == [][C20_Claimed_Step]_vars

(***************************************************************************)
(* C20 as the program behaves: the currency of every exported row is the   *)
(* unofficial code whenever that is non-empty, and the ISO code only when  *)
(* the unofficial code is empty.                                           *)
(***************************************************************************)
C20_Step ==
    pc \in {"writeTransactions", "writeInvestments"} =>
        \A p \in RowsWithCurrency :
            p[1] = IF p[2].UnofficialCurrency # "" THEN p[2].UnofficialCurrency
                   ELSE p[2].ISOCurrency

C20_CurrencyPrefersUnofficialCode == [][C20_Step]_vars

C20_Witness ==
    /\ pc = "export"
    /\ \E row \in Range(transactionsOutput.file) : row[10] = "w1" /\ row[8] = "BTC"
    /\ \E row \in Range(transactionsOutput.file) : row[10] = "w3" /\ row[8] = "USD"
    /\ \E row \in Range(transactionsOutput.file) : row[10] = "v2" /\ row[8] = "BTC"
    /\ \E row \in Range(transactionsOutput.file) : row[10] = "v6" /\ row[8] = "USD"
    /\ \E row \in Range(investmentsOutput.file) : row[8] = "v1" /\ row[10] = "BTC"
    /\ \E row \in Range(investmentsOutput.file) : row[8] = "v5" /\ row[10] = ""

\* the transactions WriteTransactions does not skip, in bundle order
Selected(transactions) == SelectSeq(transactions, LAMBDA t : ~Skipped(t, options))

\* the places of the selected transactions whose account the item's
\* configuration does not name
Unresolved(transactions) ==
    { k \in DOMAIN Selected(transactions) :
        Selected(transactions)[k].AccountID \notin DOMAIN config[item.ID].Transactions }

\* the least number of a non-empty set of numbers
Least(S) == CHOOSE k \in S : \A j \in S : k <= j

(***************************************************************************)
(* C21: when a transaction's account is absent from the item's transaction *)
(* account mapping, the export stops with an error at that record: no row  *)
(* is written for it or for a later record, and the rows of the records    *)
(* before it are in the output file when the run has ended.                *)
(***************************************************************************)
C21_Step ==
    pc = "writeTransactions" /\ Unresolved(item.Transactions) # {} =>
        LET before == SubSeq(Selected(item.Transactions), 1,
                             Least(Unresolved(item.Transactions)) - 1)
            rows == [k \in DOMAIN before |->
                        TransactionRow(config[item.ID], before[k], options)]
        IN  /\ pc' = "exported"
            /\ ret'.err # <<>>
            /\ NewRows(transactionsOutput, transactionsOutput') = rows
            /\ Range(rows) \subseteq Range(transactionsOutput'.file)

C21_RowsBeforeFailureReachOutput == [][C21_Step]_vars

(***************************************************************************)
(* C22: an unresolved account or security identifier aborts the export of  *)
(* that item only: the next step after the failed write is the loop head,  *)
(* where the remaining bundles are still taken up.                         *)
(***************************************************************************)
C22_Step ==
    /\ pc = "writeTransactions"
           /\ WriteTransactions(config[item.ID], transactionsOutput, item, options).err # <<>>
           => pc' = "export" /\ activity' = activity /\ ~ret'.returned
    /\ pc = "writeInvestments"
           /\ WriteInvestments(config[item.ID], investmentsOutput, item, options).err # <<>>
           => pc' = "export" /\ activity' = activity /\ ~ret'.returned

C22_FailedItemDoesNotEndRun == [][C22_Step]_vars

\* the rows a step added to the transactions file for a record, by its ID
TransactionRowsFor(r) ==
    { k \in DOMAIN NewRows(transactionsOutput, transactionsOutput') :
        NewRows(transactionsOutput, transactionsOutput')[k][10] = r.ID }

\* the rows a step added to the investments file for a record, by its ID
InvestmentRowsFor(r) ==
    { k \in DOMAIN NewRows(investmentsOutput, investmentsOutput') :
        NewRows(investmentsOutput, investmentsOutput')[k][8] = r.ID }

(***************************************************************************)
(* C23: the two investment projections are disjoint.  WriteTransactions    *)
(* writes a row only for records of type cash or fee whose subtype is not  *)
(* "stock distribution", one each when it succeeds, with the security's    *)
(* name as payee and type.subtype as category; WriteInvestments writes a   *)
(* row only for records of any other type, one each when it succeeds; a    *)
(* cash or fee record of subtype "stock distribution" gets no row.         *)
(***************************************************************************)
C23_Step ==
    /\ pc = "writeTransactions" =>
          \A v \in Range(item.Investments) :
              IF v.Type \in {"cash", "fee"} /\ v.Subtype # "stock distribution"
              THEN /\ Cardinality(TransactionRowsFor(v)) <= 1
                   /\ pc' = "writeInvestments" => Cardinality(TransactionRowsFor(v)) = 1
                   /\ \A k \in TransactionRowsFor(v) :
                         LET row == NewRows(transactionsOutput, transactionsOutput')[k]
                         IN  /\ row[6] = item.Securities[v.SecurityID].Name
                             /\ row[9] = v.Type \o "." \o v.Subtype
              ELSE TransactionRowsFor(v) = {}
    /\ pc = "writeTransactions" => investmentsOutput' = investmentsOutput
    /\ pc = "writeInvestments" =>
          \A v \in Range(item.Investments) :
              IF v.Type \notin {"cash", "fee"}
              THEN /\ Cardinality(InvestmentRowsFor(v)) <= 1
                   /\ pc' = "export" => Cardinality(InvestmentRowsFor(v)) = 1
              ELSE InvestmentRowsFor(v) = {}
    /\ pc = "writeInvestments" => transactionsOutput' = transactionsOutput

C23_InvestmentProjectionsAreDisjoint == [][C23_Step]_vars

C23_Witness ==
    /\ pc = "export"
    /\ Ids(item.Investments) = <<"v1", "v2", "v3", "v4", "v5", "v6">>
    /\ \E row \in Range(transactionsOutput.file) :
          row[10] = "v2" /\ row[9] = "cash.dividend" /\ row[6] = "Alpha"
    /\ \A row \in Range(transactionsOutput.file) : row[10] \notin {"v1", "v4", "v5"}
    /\ \A row \in Range(investmentsOutput.file) : row[8] \notin {"v2", "v3", "v4", "v6"}
    /\ \E row \in Range(investmentsOutput.file) : row[8] = "v1"

\* an investment record whose security or account does not resolve
Unresolvable(v) ==
    \/ v.SecurityID \notin DOMAIN item.Securities
    \/ v.AccountID \notin DOMAIN config[item.ID].Investments

(***************************************************************************)
(* C24 as claimed: an item whose bundle holds any investment record with   *)
(* an unresolvable security or account is not exported without an error.   *)
(***************************************************************************)
C24_Claimed_Step ==
    pc = "writeInvestments" /\ (\E v \in Range(item.Investments) : Unresolvable(v))
        => ret'.err # <<>>

C24_EveryUnresolvableRecordFails == [][C24_Claimed_Step]_vars

(***************************************************************************)
(* C24 as the program behaves: the export of an item fails with an error   *)
(* when an investment record that is rendered does not resolve: in         *)
(* WriteTransactions for a cash or fee record other than a "stock          *)
(* distribution", in WriteInvestments for a record of any other type.  A   *)
(* cash or fee "stock distribution" is never looked up.                    *)
(***************************************************************************)
C24_Step ==
    /\ pc = "writeTransactions"
           /\ (\E v \in Range(item.Investments) :
                  /\ v.Type \in {"cash", "fee"}
                  /\ v.Subtype # "stock distribution"
                  /\ Unresolvable(v))
           => ret'.err # <<>> /\ pc' = "exported"
    /\ pc = "writeInvestments"
           /\ (\E v \in Range(item.Investments) :
                  v.Type \notin {"cash", "fee"} /\ Unresolvable(v))
           => ret'.err # <<>> /\ pc' = "exported"

C24_RenderedUnresolvableRecordFails == [][C24_Step]_vars

C24_Witness ==
    /\ pc = "exported"
    /\ Ids(item.Investments) = <<"y4", "y5">>
    /\ ret.err = <<"write investments for", "Bank", "to output:", "unknown account:", "acctX">>

\* the rows a call added that are in the file when it returns
Delivered(before, after) == SubSeq(after.file, Len(AllRows(before)) + 1, Len(after.file))

(***************************************************************************)
(* C25: the count WriteTransactions and WriteInvestments return equals the *)
(* number of rows the call has put in the output for the item, when the    *)
(* call succeeds and when it fails.                                        *)
(***************************************************************************)
C25_CountEqualsRowsWritten ==
    /\ pc = "writeTransactions" =>
           LET w == WriteTransactions(config[item.ID], transactionsOutput, item, options)
           IN  w.count = Len(Delivered(transactionsOutput, w.output))
    /\ pc = "writeInvestments" =>
           LET w == WriteInvestments(config[item.ID], investmentsOutput, item, options)
           IN  w.count = Len(Delivered(investmentsOutput, w.output))

\* the rows of an item's bundle have been handed to the writers: run holds
\* the bundle (part_002 line 130) and its loop has gone past it
Exported(id) ==
    /\ \E k \in DOMAIN activity : activity[k].ID = id
    /\ transactionsOutput # <<>>
    /\ investmentsOutput # <<>>

(***************************************************************************)
(* C26 as claimed: items go through the whole pipeline one at a time, so   *)
(* when a remote request is made for an item, the rows of every item       *)
(* requested before it have been exported.                                 *)
(***************************************************************************)
C26_ExportedBeforeNextItemRequested ==
    \A j, k \in DOMAIN calls :
        j < k /\ calls[j].item # calls[k].item => Exported(calls[j].item)

(***************************************************************************)
(* C26 as the program behaves: RequestActivity takes the items one at a    *)
(* time, the remote calls of one item are not interleaved with those of    *)
(* another, and an item's bundle is complete and appended to the result    *)
(* before the first call for the next item; nothing is exported while      *)
(* RequestActivity is still fetching, for any item.                        *)
(***************************************************************************)
C26_ItemsFetchedOneAtATimeThenExported ==
    /\ \A j, k \in DOMAIN calls :
           j < k /\ j < Len(calls) /\ calls[j].item # calls[j + 1].item
               => calls[k].item # calls[j].item
    /\ \A j, k \in DOMAIN calls :
           j < k /\ calls[j].item # calls[k].item =>
               \E n \in DOMAIN items : items[n].ID = calls[j].item
    /\ \A n \in DOMAIN items : items[n].ID \notin {itemID} \cup remaining \/ pc \in {"range", "done"}
    /\ ExportNotStarted

C26_Witness ==
    /\ \E j, k \in DOMAIN calls : j < k /\ calls[j].item # calls[k].item
    /\ Len(items) = 1
    /\ ~ret.returned
    /\ activity = <<>>

\* the remote calls made so far for one item, in order
ItemCalls(id) == SelectSeq(calls, LAMBDA c : c.item = id)

\* the place of an endpoint in the order of one item's calls
Rank(endpoint) ==
    CASE endpoint = itemGetEndpoint -> 1
      [] endpoint = transactionsRefreshEndpoint -> 2
      [] endpoint = investmentsRefreshEndpoint -> 3
      [] endpoint = transactionsEndpoint -> 4
      [] endpoint = investmentsEndpoint -> 5

(***************************************************************************)
(* C27: within one item the remote calls are ordered: the item-status      *)
(* request, made once and first when the check is enabled, then the        *)
(* transactions refresh, then the investments refresh, then every          *)
(* transactions page, then the investments pages; with the check disabled  *)
(* there is no status or refresh request.                                  *)
(***************************************************************************)
C27_CallsOfAnItemAreOrdered ==
    \A id \in DOMAIN config :
        LET log == ItemCalls(id)
        IN  /\ \A j, k \in DOMAIN log :
                   j < k => /\ Rank(log[j].endpoint) <= Rank(log[k].endpoint)
                            /\ Rank(log[k].endpoint) <= 3
                                   => Rank(log[j].endpoint) < Rank(log[k].endpoint)
            /\ refreshThreshold < RefreshThresholdLimit /\ log # <<>>
                   => log[1].endpoint = itemGetEndpoint
            /\ ~(refreshThreshold < RefreshThresholdLimit)
                   => \A k \in DOMAIN log : Rank(log[k].endpoint) > 3

C27_Witness ==
    \E id \in DOMAIN config :
        /\ { Rank(ItemCalls(id)[k].endpoint) : k \in DOMAIN ItemCalls(id) } = 1..5
        /\ Len(CallsOf(calls, id, transactionsEndpoint)) = 2

\* a remote call that failed: no decoded 200 response, or a response that
\* embeds a provider error
FailedCall(c) == c.kind # "ok" \/ c.Error.Type # ""

(***************************************************************************)
(* C28: no remote operation is retried: no request with the same item,     *)
(* endpoint and offset is issued twice, and a failed remote call (a        *)
(* transport failure, a non-200 status, an embedded provider error) is the *)
(* last call of the run.                                                   *)
(***************************************************************************)
C28_NoRetryNoCallAfterFailure ==
    /\ \A j, k \in DOMAIN calls :
           j < k => \/ calls[j].item # calls[k].item
                    \/ calls[j].endpoint # calls[k].endpoint
                    \/ calls[j].offset # calls[k].offset
    /\ \A k \in DOMAIN calls : FailedCall(calls[k]) => k = Len(calls)

\* the end date the run is to use: the --end date, one day later under
\* --inclusive-end-date
UsedEnd == [endDate EXCEPT !.day = @ + (IF inclusiveEndDate THEN 1 ELSE 0)]

(***************************************************************************)
(* C29: with inclusive-end-date on, the end date is moved on by exactly    *)
(* one day before it is used, and that one end date is what every fetch    *)
(* request carries and what the semimonthly clamp boundary is computed     *)
(* from; with it off, the end date as given is used for both.  So          *)
(* 2024-03-14 inclusive is requested as 2024-03-15 and clamps at the end   *)
(* of 2024-03-15, and 2024-02-29 inclusive is requested as 2024-03-01 and  *)
(* clamps at the end of 2024-02-29.                                        *)
(***************************************************************************)
C29_SameEndForFetchAndClamp ==
    /\ pc # "inclusive" => end = UsedEnd
    /\ request # <<>> =>
           /\ request.EndDate = DateOnly(UsedEnd)
           /\ request.StartDate = DateOnly(start)
           /\ inclusiveEndDate /\ endDate = ParseDate(2024, 3, 14)
                  => request.EndDate = "2024-03-15"
           /\ inclusiveEndDate /\ endDate = ParseDate(2024, 2, 29)
                  => request.EndDate = "2024-03-01"
           /\ ~inclusiveEndDate /\ endDate = ParseDate(2024, 2, 29)
                  => request.EndDate = "2024-02-29"
    /\ Clamped =>
           /\ clampEndDate = IF Civil(UsedEnd).day < 15
                             THEN EndOfPreviousMonth(Civil(UsedEnd))
                             ELSE EndOfDay(Civil(UsedEnd).year, Civil(UsedEnd).month, 15)
           /\ inclusiveEndDate /\ endDate = ParseDate(2024, 3, 14)
                  => clampEndDate = EndOfDay(2024, 3, 15)
           /\ ~inclusiveEndDate /\ endDate = ParseDate(2024, 3, 14)
                  => clampEndDate = EndOfDay(2024, 2, 29)
           /\ inclusiveEndDate /\ endDate = ParseDate(2024, 2, 29)
                  => clampEndDate = EndOfDay(2024, 2, 29)
    /\ pc = "request" => request = <<>>

C29_Witness ==
    /\ Clamped
    /\ inclusiveEndDate
    /\ endDate = ParseDate(2024, 3, 14)
    /\ end = ParseDate(2024, 3, 15)
    /\ request.EndDate = "2024-03-15"
    /\ clampEndDate = EndOfDay(2024, 3, 15)
    /\ "d1" \in Range(Ids(item.Transactions))

(***************************************************************************)
(* C30: against a provider that holds a finite number N of records for a   *)
(* query, answers each request with the records from the requested offset  *)
(* up to the page size, and reports N as the total on every page, the      *)
(* pagination loops end for every N and RequestActivity eventually         *)
(* returns.                                                                *)
(***************************************************************************)
C30_PaginationTerminates == <>(pc = "done")

====
